---------------------------- MODULE Spec2Model ----------------------------
(***************************************************************************)
(* A model of the OmniC graph engine (include/omnic/graph.h): one graph    *)
(* object, its two storage representations (flattened adjacency matrix,    *)
(* per-vertex singly linked adjacency lists), the hybrid conversion        *)
(* between them, and the public mutation and query operations.             *)
(*                                                                         *)
(* Conventions                                                             *)
(*  - A graph is a record with the fields of struct oc_graph.  The union   *)
(*    `repr` is modelled by the four fields matrix / matrix_capacity /     *)
(*    lists / list_capacity; the inactive member holds <<>> and 0.         *)
(*  - The matrix is the flattened array of the code: a function on         *)
(*    0 .. capacity*capacity-1, cell (i,j) at index i*capacity + j.        *)
(*  - An adjacency list is a sequence of records [to, weight], head first. *)
(*  - Edge weights (double) are drawn from 0 .. MaxW; only equality with   *)
(*    0.0 and copying are ever applied to them by the code.                *)
(*  - size_t counters are unsigned and wrap.  TLC's integers are 32 bit,   *)
(*    so the 64 bit counter is modelled modulo SizeMod = 2^16: a decrement *)
(*    of 0 gives SizeMod-1, as (size_t)0 - 1 gives SIZE_MAX in the code.   *)
(*  - density_threshold is kept in hundredths (25 for 0.25, -100 for -1.0) *)
(*    and the double comparisons are done exactly on integers.             *)
(***************************************************************************)
EXTENDS Integers, Sequences, FiniteSets, TLC

\* ---- bounds of the model ------------------------------------------------
MaxV == 3
MaxW == 2
MaxOps == 4
\* number of calls in the long runs on a hybrid graph
MaxOpsHybrid == 6
\* an allocation failure is injected at one of the first MaxAllocs allocations of a call
MaxAllocs == 3
\* number of calls made in lockstep on a Matrix, a List and a Hybrid graph
MaxOpsModes == 3
\* vertices and edge insertions in the runs that check the level order
MaxVLevels == 4
MaxOpsLevels == 4
\* longest dynamic array: one element more than the initial capacity
MaxDaLen == 9
\* the values stored in a dynamic array are 1 .. MaxDaVal
MaxDaVal == 2

\* ---- enum oc_graph_repr_t -----------------------------------------------
OC_GRAPH_REPR_ADJ_MATRIX == "ADJ_MATRIX"
OC_GRAPH_REPR_ADJ_LIST == "ADJ_LIST"
OC_GRAPH_REPR_HYBRID == "HYBRID"
ReprTypes == {OC_GRAPH_REPR_ADJ_MATRIX, OC_GRAPH_REPR_ADJ_LIST, OC_GRAPH_REPR_HYBRID}

\* the null graph pointer (a record, so that it compares with graph records)
NULL == [null |-> TRUE]

\* ---- size_t arithmetic ----------------------------------------------------
SizeMod == 2^16
SizeInc(x) == (x + 1) % SizeMod
SizeDec(x) == (x + SizeMod - 1) % SizeMod
SizeSub(x, k) == (x + SizeMod - (k % SizeMod)) % SizeMod

Weights == 0 .. MaxW
NonZeroWeights == 1 .. MaxW
\* vertex indices a caller may pass; those >= num_vertices are out of range
Indices == 0 .. (MaxV - 1)

\* ---- calloc'ed storage ----------------------------------------------------
ZeroMatrix(n) == [idx \in 0 .. (n * n - 1) |-> 0]
EmptyLists(n) == [i \in 0 .. (n - 1) |-> << >>]

_oc_graph_init_matrix(G) ==
  [G EXCEPT !.matrix = ZeroMatrix(G.num_vertices),
            !.matrix_capacity = G.num_vertices,
            !.lists = << >>, !.list_capacity = 0]

_oc_graph_init_list(G) ==
  [G EXCEPT !.lists = EmptyLists(G.num_vertices),
            !.list_capacity = G.num_vertices,
            !.matrix = << >>, !.matrix_capacity = 0]

\* ---- queries ---------------------------------------------------------------
\* index of the first record of list `l` whose destination is `to`, 0 if none
RECURSIVE FirstTo(_, _, _)
FirstTo(l, to, k) ==
  IF k > Len(l) THEN 0
  ELSE IF l[k].to = to THEN k
  ELSE FirstTo(l, to, k + 1)

_oc_graph_find_edge_matrix(G, from, to) ==
  IF from >= G.num_vertices \/ to >= G.num_vertices THEN FALSE
  ELSE G.matrix[from * G.matrix_capacity + to] # 0

_oc_graph_find_edge_list(G, from, to) ==
  IF from >= G.num_vertices \/ to >= G.num_vertices THEN FALSE
  ELSE FirstTo(G.lists[from], to, 1) # 0

\* the weight queries return [found, weight]; weight is meaningful when found
_oc_graph_get_weight_matrix(G, from, to) ==
  IF from >= G.num_vertices \/ to >= G.num_vertices
  THEN [found |-> FALSE, weight |-> 0]
  ELSE LET weight == G.matrix[from * G.matrix_capacity + to]
       IN IF weight = 0 THEN [found |-> FALSE, weight |-> 0]
          ELSE [found |-> TRUE, weight |-> weight]

_oc_graph_get_weight_list(G, from, to) ==
  IF from >= G.num_vertices \/ to >= G.num_vertices
  THEN [found |-> FALSE, weight |-> 0]
  ELSE LET k == FirstTo(G.lists[from], to, 1)
       IN IF k = 0 THEN [found |-> FALSE, weight |-> 0]
          ELSE [found |-> TRUE, weight |-> G.lists[from][k].weight]

oc_graph_find_edge(G, from, to) ==
  IF G = NULL THEN FALSE
  ELSE IF G.repr_type = OC_GRAPH_REPR_ADJ_MATRIX
       THEN _oc_graph_find_edge_matrix(G, from, to)
       ELSE _oc_graph_find_edge_list(G, from, to)

oc_graph_get_edge_weight(G, from, to) ==
  IF G = NULL THEN [found |-> FALSE, weight |-> 0]
  ELSE IF G.repr_type = OC_GRAPH_REPR_ADJ_MATRIX
       THEN _oc_graph_get_weight_matrix(G, from, to)
       ELSE _oc_graph_get_weight_list(G, from, to)

\* ---- edge insertion ----------------------------------------------------------
\* every mutating helper returns [g, res]
_oc_graph_insert_edge_matrix(G, from, to, weight) ==
  IF from >= G.num_vertices \/ to >= G.num_vertices THEN [g |-> G, res |-> -1]
  ELSE
    LET idx == from * G.matrix_capacity + to
        edge_existed == G.matrix[idx] # 0
        m1 == [G.matrix EXCEPT ![idx] = weight]
        n1 == IF edge_existed THEN G.num_edges ELSE SizeInc(G.num_edges)
        rev_idx == to * G.matrix_capacity + from
        m2 == IF ~G.directed /\ m1[rev_idx] = 0
              THEN [m1 EXCEPT ![rev_idx] = weight] ELSE m1
    IN [g |-> [G EXCEPT !.matrix = m2, !.num_edges = n1], res |-> 0]

\* a variant of the list insertion that links a new record at the tail of the
\* per-vertex list instead of its head
_oc_graph_insert_edge_list_AtTail(G, from, to, weight) ==
  IF from >= G.num_vertices \/ to >= G.num_vertices THEN [g |-> G, res |-> -1]
  ELSE
    LET k == FirstTo(G.lists[from], to, 1)
    IN IF k # 0
       THEN [g |-> [G EXCEPT !.lists[from][k].weight = weight], res |-> 0]
       ELSE
         LET new_edge == [to |-> to, weight |-> weight]
             l1 == [G.lists EXCEPT ![from] = @ \o << new_edge >>]
             rev_edge == [to |-> from, weight |-> weight]
             l2 == IF ~G.directed
                   THEN [l1 EXCEPT ![to] = @ \o << rev_edge >>] ELSE l1
         IN [g |-> [G EXCEPT !.lists = l2, !.num_edges = SizeInc(G.num_edges)],
             res |-> 0]

_oc_graph_insert_edge_list(G, from, to, weight) ==
  IF from >= G.num_vertices \/ to >= G.num_vertices THEN [g |-> G, res |-> -1]
  ELSE
    LET k == FirstTo(G.lists[from], to, 1)
    IN IF k # 0
       THEN \* update the existing record's weight and return
            [g |-> [G EXCEPT !.lists[from][k].weight = weight], res |-> 0]
       ELSE
         LET new_edge == [to |-> to, weight |-> weight]
             l1 == [G.lists EXCEPT ![from] = << new_edge >> \o @]
             rev_edge == [to |-> from, weight |-> weight]
             l2 == IF ~G.directed
                   THEN [l1 EXCEPT ![to] = << rev_edge >> \o @] ELSE l1
         IN [g |-> [G EXCEPT !.lists = l2, !.num_edges = SizeInc(G.num_edges)],
             res |-> 0]

\* ---- edge removal --------------------------------------------------------------
RemoveAt(l, k) == SubSeq(l, 1, k - 1) \o SubSeq(l, k + 1, Len(l))

\* a variant of the matrix removal that bounds the indices by the table's
\* capacity instead of the vertex count
_oc_graph_rm_edge_matrix_CapacityBound(G, from, to) ==
  IF from >= G.matrix_capacity \/ to >= G.matrix_capacity
  THEN [g |-> G, res |-> FALSE]
  ELSE
    LET idx == from * G.matrix_capacity + to
    IN IF G.matrix[idx] = 0 THEN [g |-> G, res |-> FALSE]
       ELSE
         LET m1 == [G.matrix EXCEPT ![idx] = 0]
             rev_idx == to * G.matrix_capacity + from
             m2 == IF ~G.directed /\ m1[rev_idx] # 0
                   THEN [m1 EXCEPT ![rev_idx] = 0] ELSE m1
         IN [g |-> [G EXCEPT !.matrix = m2, !.num_edges = SizeDec(G.num_edges)],
             res |-> TRUE]

_oc_graph_rm_edge_matrix(G, from, to) ==
  IF from >= G.num_vertices \/ to >= G.num_vertices THEN [g |-> G, res |-> FALSE]
  ELSE
    LET idx == from * G.matrix_capacity + to
    IN IF G.matrix[idx] = 0 THEN [g |-> G, res |-> FALSE]
       ELSE
         LET m1 == [G.matrix EXCEPT ![idx] = 0]
             rev_idx == to * G.matrix_capacity + from
             m2 == IF ~G.directed /\ m1[rev_idx] # 0
                   THEN [m1 EXCEPT ![rev_idx] = 0] ELSE m1
         IN [g |-> [G EXCEPT !.matrix = m2, !.num_edges = SizeDec(G.num_edges)],
             res |-> TRUE]

_oc_graph_rm_edge_list(G, from, to) ==
  IF from >= G.num_vertices \/ to >= G.num_vertices THEN [g |-> G, res |-> FALSE]
  ELSE
    LET k == FirstTo(G.lists[from], to, 1)
    IN IF k = 0 THEN [g |-> G, res |-> FALSE]
       ELSE
         LET l1 == [G.lists EXCEPT ![from] = RemoveAt(@, k)]
             r == FirstTo(l1[to], from, 1)
             l2 == IF ~G.directed /\ r # 0
                   THEN [l1 EXCEPT ![to] = RemoveAt(@, r)] ELSE l1
         IN [g |-> [G EXCEPT !.lists = l2, !.num_edges = SizeDec(G.num_edges)],
             res |-> TRUE]

\* ---- hybrid representation switching ----------------------------------------------
\* replay the records of old_list, slot i from record k on, into the matrix of G
RECURSIVE TransferListEdges(_, _, _, _)
TransferListEdges(G, old_lists, i, k) ==
  IF i >= G.num_vertices THEN G
  ELSE IF k > Len(old_lists[i]) THEN TransferListEdges(G, old_lists, i + 1, 1)
  ELSE TransferListEdges(
         _oc_graph_insert_edge_matrix(G, i, old_lists[i][k].to,
                                      old_lists[i][k].weight).g,
         old_lists, i, k + 1)

_oc_graph_convert_to_matrix(G) ==
  IF G.repr_type = OC_GRAPH_REPR_ADJ_MATRIX THEN [g |-> G, res |-> 0]
  ELSE
    LET old_lists == G.lists
        g1 == [_oc_graph_init_matrix(G) EXCEPT !.repr_type = OC_GRAPH_REPR_ADJ_MATRIX]
    IN [g |-> TransferListEdges(g1, old_lists, 0, 1), res |-> 0]

\* replay the cells of old_matrix, from cell (i, j) on in row-major order, into
\* the lists of G
RECURSIVE TransferMatrixEdges(_, _, _, _, _)
TransferMatrixEdges(G, old_matrix, old_capacity, i, j) ==
  IF i >= G.num_vertices THEN G
  ELSE IF j >= G.num_vertices
       THEN TransferMatrixEdges(G, old_matrix, old_capacity, i + 1, 0)
  ELSE
    LET idx == i * old_capacity + j
        g1 == IF old_matrix[idx] # 0 /\ (G.directed \/ i <= j)
              THEN _oc_graph_insert_edge_list(G, i, j, old_matrix[idx]).g
              ELSE G
    IN TransferMatrixEdges(g1, old_matrix, old_capacity, i, j + 1)

_oc_graph_convert_to_list(G) ==
  IF G.repr_type = OC_GRAPH_REPR_ADJ_LIST THEN [g |-> G, res |-> 0]
  ELSE
    LET old_matrix == G.matrix
        old_capacity == G.matrix_capacity
        old_edges == G.num_edges
        g1 == [_oc_graph_init_list(G) EXCEPT !.repr_type = OC_GRAPH_REPR_ADJ_LIST,
                                             !.num_edges = 0]
        g2 == TransferMatrixEdges(g1, old_matrix, old_capacity, 0, 0)
    IN [g |-> [g2 EXCEPT !.num_edges = old_edges], res |-> 0]

\* 0.75 of the threshold, in hundredths of the threshold's hundredths
HysteresisPercent == 75

\* a variant of the density check that converts List->Matrix already when the
\* density equals the threshold
_oc_graph_check_hybrid_conversion_AtThreshold(G) ==
  IF G.repr_type = OC_GRAPH_REPR_HYBRID THEN G
  ELSE IF G.density_threshold <= 0 THEN G
  ELSE
    LET max_edges == G.num_vertices * G.num_vertices
    IN IF max_edges = 0 THEN G
       ELSE IF /\ G.repr_type = OC_GRAPH_REPR_ADJ_LIST
               /\ G.num_edges * 100 >= G.density_threshold * max_edges
            THEN _oc_graph_convert_to_matrix(G).g
       ELSE IF /\ G.repr_type = OC_GRAPH_REPR_ADJ_MATRIX
               /\ G.num_edges * 100 * 100
                    < G.density_threshold * HysteresisPercent * max_edges
            THEN _oc_graph_convert_to_list(G).g
       ELSE G

\* a variant of the density check without hysteresis: Matrix->List as soon as
\* the density is below the threshold itself
_oc_graph_check_hybrid_conversion_NoHysteresis(G) ==
  IF G.repr_type = OC_GRAPH_REPR_HYBRID THEN G
  ELSE IF G.density_threshold <= 0 THEN G
  ELSE
    LET max_edges == G.num_vertices * G.num_vertices
    IN IF max_edges = 0 THEN G
       ELSE IF /\ G.repr_type = OC_GRAPH_REPR_ADJ_LIST
               /\ G.num_edges * 100 > G.density_threshold * max_edges
            THEN _oc_graph_convert_to_matrix(G).g
       ELSE IF /\ G.repr_type = OC_GRAPH_REPR_ADJ_MATRIX
               /\ G.num_edges * 100 < G.density_threshold * max_edges
            THEN _oc_graph_convert_to_list(G).g
       ELSE G

_oc_graph_check_hybrid_conversion(G) ==
  IF G.repr_type = OC_GRAPH_REPR_HYBRID THEN G
  ELSE IF G.density_threshold <= 0 THEN G
  ELSE
    LET max_edges == G.num_vertices * G.num_vertices
    IN IF max_edges = 0 THEN G
       ELSE IF /\ G.repr_type = OC_GRAPH_REPR_ADJ_LIST
               \* density > threshold
               /\ G.num_edges * 100 > G.density_threshold * max_edges
            THEN _oc_graph_convert_to_matrix(G).g
       ELSE IF /\ G.repr_type = OC_GRAPH_REPR_ADJ_MATRIX
               \* density < threshold * 0.75
               /\ G.num_edges * 100 * 100
                    < G.density_threshold * HysteresisPercent * max_edges
            THEN _oc_graph_convert_to_list(G).g
       ELSE G

\* ---- API implementation ---------------------------------------------------------------
\* default threshold for hybrid graphs, in hundredths (0.25)
DefaultDensityThreshold == 25

\* a variant of oc_graph_init that gives every mode the default density
\* threshold, so that the density check is armed for Matrix and List graphs too
oc_graph_init_AlwaysThreshold(num_vertices, directed, repr_type) ==
  IF num_vertices = 0 THEN NULL
  ELSE
    LET g0 == [num_vertices |-> num_vertices,
               num_edges |-> 0,
               directed |-> directed,
               density_threshold |-> DefaultDensityThreshold,
               repr_type |->
                 IF repr_type = OC_GRAPH_REPR_HYBRID
                 THEN OC_GRAPH_REPR_ADJ_LIST ELSE repr_type,
               matrix |-> << >>, matrix_capacity |-> 0,
               lists |-> << >>, list_capacity |-> 0]
    IN IF g0.repr_type = OC_GRAPH_REPR_ADJ_MATRIX
       THEN _oc_graph_init_matrix(g0)
       ELSE _oc_graph_init_list(g0)

\* a variant of oc_graph_init in which a Hybrid graph starts in the Matrix
\* representation
oc_graph_init_HybridStartsMatrix(num_vertices, directed, repr_type) ==
  IF num_vertices = 0 THEN NULL
  ELSE
    LET g0 == [num_vertices |-> num_vertices,
               num_edges |-> 0,
               directed |-> directed,
               density_threshold |->
                 IF repr_type = OC_GRAPH_REPR_HYBRID
                 THEN DefaultDensityThreshold ELSE -100,
               repr_type |->
                 IF repr_type = OC_GRAPH_REPR_HYBRID
                 THEN OC_GRAPH_REPR_ADJ_MATRIX ELSE repr_type,
               matrix |-> << >>, matrix_capacity |-> 0,
               lists |-> << >>, list_capacity |-> 0]
    IN IF g0.repr_type = OC_GRAPH_REPR_ADJ_MATRIX
       THEN _oc_graph_init_matrix(g0)
       ELSE _oc_graph_init_list(g0)

oc_graph_init(num_vertices, directed, repr_type) ==
  IF num_vertices = 0 THEN NULL
  ELSE
    LET g0 == [num_vertices |-> num_vertices,
               num_edges |-> 0,
               directed |-> directed,
               density_threshold |->
                 IF repr_type = OC_GRAPH_REPR_HYBRID
                 THEN DefaultDensityThreshold ELSE -100,
               repr_type |->
                 IF repr_type = OC_GRAPH_REPR_HYBRID
                 THEN OC_GRAPH_REPR_ADJ_LIST ELSE repr_type,
               matrix |-> << >>, matrix_capacity |-> 0,
               lists |-> << >>, list_capacity |-> 0]
    IN IF g0.repr_type = OC_GRAPH_REPR_ADJ_MATRIX
       THEN _oc_graph_init_matrix(g0)
       ELSE _oc_graph_init_list(g0)

\* the edge operation itself, before the hybrid density check
InsertEdgeDispatch(G, from, to, weight) ==
  IF G.repr_type = OC_GRAPH_REPR_ADJ_MATRIX
  THEN _oc_graph_insert_edge_matrix(G, from, to, weight)
  ELSE _oc_graph_insert_edge_list(G, from, to, weight)

oc_graph_insert_edge(G, from, to, weight) ==
  IF G = NULL THEN [g |-> G, res |-> -1]
  ELSE
    LET r == InsertEdgeDispatch(G, from, to, weight)
    IN IF r.res = 0 /\ r.g.density_threshold > 0
       THEN [g |-> _oc_graph_check_hybrid_conversion(r.g), res |-> r.res]
       ELSE r

RmEdgeDispatch(G, from, to) ==
  IF G.repr_type = OC_GRAPH_REPR_ADJ_MATRIX
  THEN _oc_graph_rm_edge_matrix(G, from, to)
  ELSE _oc_graph_rm_edge_list(G, from, to)

oc_graph_rm_edge(G, from, to) ==
  IF G = NULL THEN [g |-> G, res |-> FALSE]
  ELSE
    LET r == RmEdgeDispatch(G, from, to)
    IN IF r.res /\ r.g.density_threshold > 0
       THEN [g |-> _oc_graph_check_hybrid_conversion(r.g), res |-> r.res]
       ELSE r

\* memcpy of old_n cells per row, read with stride old_n (= num_vertices) and
\* written with stride new_n
_oc_graph_resize_matrix_add(G) ==
  LET old_n == G.num_vertices
      new_n == old_n + 1
      new_mat == [idx \in 0 .. (new_n * new_n - 1) |->
                    LET i == idx \div new_n
                        j == idx % new_n
                    IN IF i < old_n /\ j < old_n
                       THEN G.matrix[i * old_n + j] ELSE 0]
  IN [g |-> [G EXCEPT !.matrix = new_mat, !.matrix_capacity = new_n], res |-> 0]

\* returns [g, res]; res is the new vertex's index
oc_graph_insert_vertex(G) ==
  IF G = NULL THEN [g |-> G, res |-> -1]
  ELSE
    LET g1 == IF G.repr_type = OC_GRAPH_REPR_ADJ_MATRIX
              THEN _oc_graph_resize_matrix_add(G).g
              ELSE \* realloc to num_vertices + 1 slots, the new one set to NULL
                   [G EXCEPT !.lists = [i \in 0 .. G.num_vertices |->
                                          IF i < G.num_vertices
                                          THEN G.lists[i] ELSE << >>],
                             !.list_capacity = G.num_vertices + 1]
    IN [g |-> [g1 EXCEPT !.num_vertices = G.num_vertices + 1],
        res |-> G.num_vertices]

\* the row/column moves of the matrix branch, for k, k+1, .. num_vertices-1
RECURSIVE MoveLastRowCol(_, _, _, _, _, _)
MoveLastRowCol(m, cap, n, vertex, last, k) ==
  IF k >= n THEN m
  ELSE
    LET m1 == [m EXCEPT ![vertex * cap + k] = m[last * cap + k]]
        m2 == [m1 EXCEPT ![k * cap + vertex] = m1[k * cap + last]]
    IN MoveLastRowCol(m2, cap, n, vertex, last, k + 1)

RmVertexMatrix(G, vertex) ==
  LET last == G.num_vertices - 1
      cap == G.matrix_capacity
  IN IF vertex # last
     THEN LET m1 == MoveLastRowCol(G.matrix, cap, G.num_vertices, vertex, last, 0)
              m2 == [m1 EXCEPT ![vertex * cap + vertex] = m1[last * cap + last]]
          IN [G EXCEPT !.matrix = m2]
     ELSE G

\* a variant of the renaming pass that leaves the records to `last` as they are
RenameLast_NoRename(l, vertex, last) == l

\* one pass of the list branch over the list of a vertex other than `vertex`:
\* records to `vertex` are unlinked, records to `last` are renamed
RenameLast(l, vertex, last) ==
  [k \in 1 .. Len(l) |->
     IF l[k].to = last /\ vertex # last
     THEN [l[k] EXCEPT !.to = vertex] ELSE l[k]]

ScanList(l, vertex, last) ==
  RenameLast(SelectSeq(l, LAMBDA e : e.to # vertex), vertex, last)

RECURSIVE CountTo(_, _, _)
CountTo(l, vertex, k) ==
  IF k > Len(l) THEN 0
  ELSE (IF l[k].to = vertex THEN 1 ELSE 0) + CountTo(l, vertex, k + 1)

\* number of records to `vertex` in the lists i .. num_vertices-1, `vertex` skipped
RECURSIVE RecordsTo(_, _, _)
RecordsTo(G, vertex, i) ==
  IF i >= G.num_vertices THEN 0
  ELSE (IF i = vertex THEN 0 ELSE CountTo(G.lists[i], vertex, 1))
       + RecordsTo(G, vertex, i + 1)

\* a variant of the list branch that leaves the slot of the last vertex as it
\* is after moving its list
RmVertexList_KeepLastSlot(G, vertex) ==
  LET last == G.num_vertices - 1
      n1 == SizeSub(G.num_edges, Len(G.lists[vertex]))
      n2 == SizeSub(n1, RecordsTo(G, vertex, 0))
      l2 == [i \in DOMAIN G.lists |->
               IF i < G.num_vertices /\ i # vertex
               THEN ScanList(G.lists[i], vertex, last) ELSE G.lists[i]]
      l3 == IF vertex # last THEN [l2 EXCEPT ![vertex] = l2[last]] ELSE l2
  IN [G EXCEPT !.lists = l3, !.num_edges = n2]

RmVertexList(G, vertex) ==
  LET last == G.num_vertices - 1
      \* 1. free the removed vertex's list, one decrement per record
      n1 == SizeSub(G.num_edges, Len(G.lists[vertex]))
      \* 2. unlink the records to `vertex`, one decrement each; rename `last`
      n2 == SizeSub(n1, RecordsTo(G, vertex, 0))
      l2 == [i \in DOMAIN G.lists |->
               IF i < G.num_vertices /\ i # vertex
               THEN ScanList(G.lists[i], vertex, last) ELSE G.lists[i]]
      \* 3. move the last list to position `vertex`
      l3 == IF vertex # last THEN [l2 EXCEPT ![vertex] = l2[last]] ELSE l2
      l4 == [l3 EXCEPT ![last] = << >>]
  IN [G EXCEPT !.lists = l4, !.num_edges = n2]

oc_graph_rm_vertex(G, vertex) ==
  IF G = NULL \/ vertex >= G.num_vertices THEN [g |-> G, res |-> FALSE]
  ELSE
    LET g1 == IF G.repr_type = OC_GRAPH_REPR_ADJ_MATRIX
              THEN RmVertexMatrix(G, vertex)
              ELSE RmVertexList(G, vertex)
    IN [g |-> [g1 EXCEPT !.num_vertices = G.num_vertices - 1], res |-> TRUE]

\* ---- traversals -----------------------------------------------------------------------
\* A traversal is modelled by the sequence of vertices handed to the visitor,
\* in call order.  st is [visited, order]: the visited[] flags as the set of
\* flagged vertices, and the visitor calls made so far.
RECURSIVE _dfs_recursive(_, _, _)
RECURSIVE DfsScanList(_, _, _, _)
RECURSIVE DfsScanMatrix(_, _, _, _)

\* while (edge) { if (!visited[edge->to]) recurse; edge = edge->next; }
DfsScanList(G, current, k, st) ==
  IF k > Len(G.lists[current]) THEN st
  ELSE LET to == G.lists[current][k].to
       IN DfsScanList(G, current, k + 1,
                      IF to \notin st.visited
                      THEN _dfs_recursive(G, to, st) ELSE st)

\* for (i = 0; i < num_vertices; ++i) if (matrix[current*capacity+i] != 0 ...)
DfsScanMatrix(G, current, i, st) ==
  IF i >= G.num_vertices THEN st
  ELSE DfsScanMatrix(G, current, i + 1,
                     IF /\ G.matrix[current * G.matrix_capacity + i] # 0
                        /\ i \notin st.visited
                     THEN _dfs_recursive(G, i, st) ELSE st)

_dfs_recursive(G, current, st) ==
  LET st1 == [visited |-> st.visited \cup {current},
              order |-> Append(st.order, current)]
  IN IF G.repr_type = OC_GRAPH_REPR_ADJ_LIST
     THEN DfsScanList(G, current, 1, st1)
     ELSE DfsScanMatrix(G, current, 0, st1)

oc_graph_dfs(G, start) ==
  IF G = NULL THEN << >>
  ELSE IF start >= G.num_vertices THEN << >>
  ELSE _dfs_recursive(G, start, [visited |-> {}, order |-> << >>]).order

\* q is [queue, visited]; q_tail is Len(queue)
\* a variant of the list scan of the breadth-first traversal that enqueues an
\* unvisited neighbour without marking it visited
RECURSIVE BfsScanList_NoMark(_, _, _, _)
BfsScanList_NoMark(G, current, k, q) ==
  IF k > Len(G.lists[current]) THEN q
  ELSE LET to == G.lists[current][k].to
       IN BfsScanList_NoMark(G, current, k + 1,
                             IF to \notin q.visited
                             THEN [queue |-> Append(q.queue, to),
                                   visited |-> q.visited]
                             ELSE q)

RECURSIVE BfsScanList(_, _, _, _)
BfsScanList(G, current, k, q) ==
  IF k > Len(G.lists[current]) THEN q
  ELSE LET to == G.lists[current][k].to
       IN BfsScanList(G, current, k + 1,
                      IF to \notin q.visited
                      THEN [queue |-> Append(q.queue, to),
                            visited |-> q.visited \cup {to}]
                      ELSE q)

\* a variant of the matrix scan of the breadth-first traversal that reads the
\* row with stride num_vertices instead of the matrix capacity
RECURSIVE BfsScanMatrix_StrideNumVertices(_, _, _, _)
BfsScanMatrix_StrideNumVertices(G, current, i, q) ==
  IF i >= G.num_vertices THEN q
  ELSE BfsScanMatrix_StrideNumVertices(G, current, i + 1,
         IF /\ G.matrix[current * G.num_vertices + i] # 0
            /\ i \notin q.visited
         THEN [queue |-> Append(q.queue, i),
               visited |-> q.visited \cup {i}]
         ELSE q)

RECURSIVE BfsScanMatrix(_, _, _, _)
BfsScanMatrix(G, current, i, q) ==
  IF i >= G.num_vertices THEN q
  ELSE BfsScanMatrix(G, current, i + 1,
                     IF /\ G.matrix[current * G.matrix_capacity + i] # 0
                        /\ i \notin q.visited
                     THEN [queue |-> Append(q.queue, i),
                           visited |-> q.visited \cup {i}]
                     ELSE q)

\* a variant of the queue loop that takes the most recently enqueued vertex not
\* yet reported (a stack) instead of the oldest one
RECURSIVE BfsLoop_LastInFirstOut(_, _, _, _)
BfsLoop_LastInFirstOut(G, q, q_head, order) ==
  LET reported == {order[k] : k \in 1 .. Len(order)}
      pending == {k \in 1 .. Len(q.queue) : q.queue[k] \notin reported}
  IN IF pending = {} THEN order
     ELSE LET current == q.queue[CHOOSE k \in pending :
                                   \A m \in pending : m <= k]
              q1 == IF G.repr_type = OC_GRAPH_REPR_ADJ_LIST
                    THEN BfsScanList(G, current, 1, q)
                    ELSE BfsScanMatrix(G, current, 0, q)
          IN BfsLoop_LastInFirstOut(G, q1, q_head + 1, Append(order, current))

\* while (q_head != q_tail) { current = queue[q_head++]; visitor(current); ... }
RECURSIVE BfsLoop(_, _, _, _)
BfsLoop(G, q, q_head, order) ==
  IF q_head = Len(q.queue) THEN order
  ELSE LET current == q.queue[q_head + 1]
           q1 == IF G.repr_type = OC_GRAPH_REPR_ADJ_LIST
                 THEN BfsScanList(G, current, 1, q)
                 ELSE BfsScanMatrix(G, current, 0, q)
       IN BfsLoop(G, q1, q_head + 1, Append(order, current))

oc_graph_bfs(G, start) ==
  IF G = NULL THEN << >>
  ELSE IF start >= G.num_vertices THEN << >>
  ELSE BfsLoop(G, [queue |-> << start >>, visited |-> {start}], 0, << >>)

\* ---- dynarray.h -----------------------------------------------------------------------
\* A dynamic array is the user's pointer da: NULL, or a block with the header
\* fields capacity and length and the cells data[0 .. capacity-1].  A cell that
\* was never written holds Indeterminate.
OC_DYNARRAY_INITIAL_CAPACITY == 8
Indeterminate == -1

oc_da_len(da) == IF da # NULL THEN da.length ELSE 0

oc_da_cap(da) == IF da # NULL THEN da.capacity ELSE 0

\* malloc of a new block (length 0) or realloc of the old one (cells kept)
_oc_da_grow(da, new_cap) ==
  IF da = NULL
  THEN [capacity |-> new_cap, length |-> 0,
        data |-> [k \in 0 .. (new_cap - 1) |-> Indeterminate]]
  ELSE [capacity |-> new_cap, length |-> da.length,
        data |-> [k \in 0 .. (new_cap - 1) |->
                    IF k < da.capacity THEN da.data[k] ELSE Indeterminate]]

\* a variant of push that grows the block by one cell instead of doubling it
oc_da_push_GrowByOne(da, val) ==
  LET cap == oc_da_cap(da)
      len == oc_da_len(da)
      da1 == IF cap <= len
             THEN _oc_da_grow(da, IF cap = 0
                                  THEN OC_DYNARRAY_INITIAL_CAPACITY
                                  ELSE cap + 1)
             ELSE da
  IN [da1 EXCEPT !.data[len] = val, !.length = SizeInc(da1.length)]

oc_da_push(da, val) ==
  LET cap == oc_da_cap(da)
      len == oc_da_len(da)
      da1 == IF cap <= len
             THEN _oc_da_grow(da, IF cap = 0
                                  THEN OC_DYNARRAY_INITIAL_CAPACITY
                                  ELSE cap * 2)
             ELSE da
  IN [da1 EXCEPT !.data[len] = val, !.length = SizeInc(da1.length)]

\* the assert on the length is the guard of the action that makes the call
oc_da_pop(da) == [da EXCEPT !.length = SizeDec(da.length)]

\* memmove(&da[dst], &da[src], n cells)
memmove(data, dst, src, n) ==
  [k \in DOMAIN data |->
     IF dst <= k /\ k < dst + n THEN data[src + (k - dst)] ELSE data[k]]

\* a variant of insert that leaves the pushed value at the end
oc_da_insert_NoShift(da, index, val) == oc_da_push(da, val)

oc_da_insert(da, index, val) ==
  LET len == oc_da_len(da)
      da1 == oc_da_push(da, val)
  IN IF index < len
     THEN LET moved == memmove(da1.data, index + 1, index, len - index)
          IN [da1 EXCEPT !.data = [moved EXCEPT ![index] = val]]
     ELSE da1

oc_da_erase(da, index) ==
  LET len == oc_da_len(da)
      data1 == IF index < len - 1
               THEN memmove(da.data, index, index + 1, len - 1 - index)
               ELSE da.data
  IN [da EXCEPT !.data = data1, !.length = SizeDec(da.length)]

\* ---- allocation failure -----------------------------------------------------------------
\* The operators above are the functions when every malloc/calloc/realloc
\* succeeds.  The operators below are the same functions with one failing
\* allocation: `fail` = k >= 1 says that the k-th allocation made from here on
\* returns NULL, `fail` = 0 that none does.  They return [g, res, fail] with
\* the countdown left for the allocations still to come (0 once the failure
\* has happened).
AllocOk(fail) == fail # 1
AllocNext(fail) == IF fail > 1 THEN fail - 1 ELSE 0

\* a variant of the list insert under allocation failure that returns -1 when
\* rev_edge is NULL without unlinking the forward record
_oc_graph_insert_edge_list_alloc_NoCleanup(G, from, to, weight, fail) ==
  IF from >= G.num_vertices \/ to >= G.num_vertices
  THEN [g |-> G, res |-> -1, fail |-> fail]
  ELSE IF FirstTo(G.lists[from], to, 1) # 0
       THEN [g |-> _oc_graph_insert_edge_list(G, from, to, weight).g,
             res |-> 0, fail |-> fail]
  ELSE IF ~AllocOk(fail)
       THEN [g |-> G, res |-> -1, fail |-> 0]
  ELSE IF ~G.directed /\ ~AllocOk(AllocNext(fail))
       THEN [g |-> [G EXCEPT !.lists[from] =
                               << [to |-> to, weight |-> weight] >> \o @,
                             !.num_edges = SizeInc(G.num_edges)],
             res |-> -1, fail |-> 0]
  ELSE [g |-> _oc_graph_insert_edge_list(G, from, to, weight).g, res |-> 0,
        fail |-> IF G.directed THEN AllocNext(fail)
                 ELSE AllocNext(AllocNext(fail))]

_oc_graph_insert_edge_list_alloc(G, from, to, weight, fail) ==
  IF from >= G.num_vertices \/ to >= G.num_vertices
  THEN [g |-> G, res |-> -1, fail |-> fail]
  ELSE IF FirstTo(G.lists[from], to, 1) # 0
       THEN \* an existing record is updated, nothing is allocated
            [g |-> _oc_graph_insert_edge_list(G, from, to, weight).g,
             res |-> 0, fail |-> fail]
  ELSE IF ~AllocOk(fail)
       THEN \* new_edge is NULL
            [g |-> G, res |-> -1, fail |-> 0]
  ELSE IF ~G.directed /\ ~AllocOk(AllocNext(fail))
       THEN \* rev_edge is NULL: the forward record is unlinked and freed,
            \* num_edges++ is undone by num_edges--
            [g |-> [G EXCEPT !.num_edges = SizeDec(SizeInc(G.num_edges))],
             res |-> -1, fail |-> 0]
  ELSE [g |-> _oc_graph_insert_edge_list(G, from, to, weight).g, res |-> 0,
        fail |-> IF G.directed THEN AllocNext(fail)
                 ELSE AllocNext(AllocNext(fail))]

_oc_graph_convert_to_matrix_alloc(G, fail) ==
  IF G.repr_type = OC_GRAPH_REPR_ADJ_MATRIX THEN [g |-> G, res |-> 0, fail |-> fail]
  ELSE IF ~AllocOk(fail)
       THEN \* _oc_graph_init_matrix fails, repr.list is restored
            [g |-> G, res |-> -1, fail |-> 0]
  ELSE [g |-> _oc_graph_convert_to_matrix(G).g, res |-> 0, fail |-> AllocNext(fail)]

\* the replay of _oc_graph_convert_to_list; the result of each insert is ignored
RECURSIVE TransferMatrixEdges_alloc(_, _, _, _, _, _)
TransferMatrixEdges_alloc(G, old_matrix, old_capacity, i, j, fail) ==
  IF i >= G.num_vertices THEN [g |-> G, fail |-> fail]
  ELSE IF j >= G.num_vertices
       THEN TransferMatrixEdges_alloc(G, old_matrix, old_capacity, i + 1, 0, fail)
  ELSE
    LET idx == i * old_capacity + j
        r == IF old_matrix[idx] # 0 /\ (G.directed \/ i <= j)
             THEN _oc_graph_insert_edge_list_alloc(G, i, j, old_matrix[idx], fail)
             ELSE [g |-> G, res |-> 0, fail |-> fail]
    IN TransferMatrixEdges_alloc(r.g, old_matrix, old_capacity, i, j + 1, r.fail)

_oc_graph_convert_to_list_alloc(G, fail) ==
  IF G.repr_type = OC_GRAPH_REPR_ADJ_LIST THEN [g |-> G, res |-> 0, fail |-> fail]
  ELSE IF ~AllocOk(fail)
       THEN \* _oc_graph_init_list fails, repr.matrix is restored
            [g |-> G, res |-> -1, fail |-> 0]
  ELSE
    LET old_matrix == G.matrix
        old_capacity == G.matrix_capacity
        old_edges == G.num_edges
        g1 == [_oc_graph_init_list(G) EXCEPT !.repr_type = OC_GRAPH_REPR_ADJ_LIST,
                                             !.num_edges = 0]
        t == TransferMatrixEdges_alloc(g1, old_matrix, old_capacity, 0, 0,
                                       AllocNext(fail))
    IN [g |-> [t.g EXCEPT !.num_edges = old_edges], res |-> 0, fail |-> t.fail]

\* returns [g, fail]; the results of the conversions are ignored
_oc_graph_check_hybrid_conversion_alloc(G, fail) ==
  IF G.repr_type = OC_GRAPH_REPR_HYBRID THEN [g |-> G, fail |-> fail]
  ELSE IF G.density_threshold <= 0 THEN [g |-> G, fail |-> fail]
  ELSE
    LET max_edges == G.num_vertices * G.num_vertices
    IN IF max_edges = 0 THEN [g |-> G, fail |-> fail]
       ELSE IF /\ G.repr_type = OC_GRAPH_REPR_ADJ_LIST
               /\ G.num_edges * 100 > G.density_threshold * max_edges
            THEN LET c == _oc_graph_convert_to_matrix_alloc(G, fail)
                 IN [g |-> c.g, fail |-> c.fail]
       ELSE IF /\ G.repr_type = OC_GRAPH_REPR_ADJ_MATRIX
               /\ G.num_edges * 100 * 100
                    < G.density_threshold * HysteresisPercent * max_edges
            THEN LET c == _oc_graph_convert_to_list_alloc(G, fail)
                 IN [g |-> c.g, fail |-> c.fail]
       ELSE [g |-> G, fail |-> fail]

\* the edge operation itself, before the hybrid density check
InsertEdgeDispatch_alloc(G, from, to, weight, fail) ==
  IF G.repr_type = OC_GRAPH_REPR_ADJ_MATRIX
  THEN [g |-> _oc_graph_insert_edge_matrix(G, from, to, weight).g,
        res |-> _oc_graph_insert_edge_matrix(G, from, to, weight).res,
        fail |-> fail]
  ELSE _oc_graph_insert_edge_list_alloc(G, from, to, weight, fail)

oc_graph_insert_edge_alloc(G, from, to, weight, fail) ==
  IF G = NULL THEN [g |-> G, res |-> -1, fail |-> fail]
  ELSE
    LET r == InsertEdgeDispatch_alloc(G, from, to, weight, fail)
    IN IF r.res = 0 /\ r.g.density_threshold > 0
       THEN LET c == _oc_graph_check_hybrid_conversion_alloc(r.g, r.fail)
            IN [g |-> c.g, res |-> r.res, fail |-> c.fail]
       ELSE r

oc_graph_rm_edge_alloc(G, from, to, fail) ==
  IF G = NULL THEN [g |-> G, res |-> FALSE, fail |-> fail]
  ELSE
    LET r == RmEdgeDispatch(G, from, to)
    IN IF r.res /\ r.g.density_threshold > 0
       THEN LET c == _oc_graph_check_hybrid_conversion_alloc(r.g, fail)
            IN [g |-> c.g, res |-> r.res, fail |-> c.fail]
       ELSE [g |-> r.g, res |-> r.res, fail |-> fail]

\* calloc of the new matrix or realloc of the slot array; res is (size_t)-1,
\* written -1, when it fails
oc_graph_insert_vertex_alloc(G, fail) ==
  IF G = NULL THEN [g |-> G, res |-> -1, fail |-> fail]
  ELSE IF ~AllocOk(fail) THEN [g |-> G, res |-> -1, fail |-> 0]
  ELSE [g |-> oc_graph_insert_vertex(G).g, res |-> oc_graph_insert_vertex(G).res,
        fail |-> AllocNext(fail)]

\* ---- the state machine ---------------------------------------------------------------
VARIABLES
  g,      \* the graph object
  last,   \* the last call made on it and its return value
  nops    \* number of calls made so far

vars == << g, last, nops >>

Init ==
  /\ \E n \in 1 .. MaxV, directed \in BOOLEAN, repr_type \in ReprTypes :
       g = oc_graph_init(n, directed, repr_type)
  /\ last = [op |-> "init", res |-> 0]
  /\ nops = 0

InsertEdge(from, to, weight) ==
  /\ nops < MaxOps
  /\ LET r == oc_graph_insert_edge(g, from, to, weight)
     IN /\ g' = r.g
        /\ last' = [op |-> "insert_edge", res |-> r.res]
  /\ nops' = nops + 1

RemoveEdge(from, to) ==
  /\ nops < MaxOps
  /\ LET r == oc_graph_rm_edge(g, from, to)
     IN /\ g' = r.g
        /\ last' = [op |-> "rm_edge", res |-> IF r.res THEN 1 ELSE 0]
  /\ nops' = nops + 1

InsertVertex ==
  /\ nops < MaxOps
  /\ g.num_vertices < MaxV
  /\ LET r == oc_graph_insert_vertex(g)
     IN /\ g' = r.g
        /\ last' = [op |-> "insert_vertex", res |-> r.res]
  /\ nops' = nops + 1

RemoveVertex(vertex) ==
  /\ nops < MaxOps
  /\ LET r == oc_graph_rm_vertex(g, vertex)
     IN /\ g' = r.g
        /\ last' = [op |-> "rm_vertex", res |-> IF r.res THEN 1 ELSE 0]
  /\ nops' = nops + 1

Next ==
  \/ \E from \in Indices, to \in Indices, weight \in Weights :
       InsertEdge(from, to, weight)
  \/ \E from \in Indices, to \in Indices : RemoveEdge(from, to)
  \/ InsertVertex
  \/ \E vertex \in Indices : RemoveVertex(vertex)

Spec == Init /\ [][Next]_vars

\* the same machine when the caller never passes the reserved weight 0
NextNZ ==
  \/ \E from \in Indices, to \in Indices, weight \in NonZeroWeights :
       InsertEdge(from, to, weight)
  \/ \E from \in Indices, to \in Indices : RemoveEdge(from, to)
  \/ InsertVertex
  \/ \E vertex \in Indices : RemoveVertex(vertex)

SpecNZ == Init /\ [][NextNZ]_vars

\* ---- calls under allocation failure ----------------------------------------------------------
\* The calls of Next, and the same calls with the allocation number `fail` of
\* the call returning NULL.
InsertEdgeAllocFail(from, to, weight, fail) ==
  /\ nops < MaxOps
  /\ LET r == oc_graph_insert_edge_alloc(g, from, to, weight, fail)
     IN /\ g' = r.g
        /\ last' = [op |-> "insert_edge", res |-> r.res]
  /\ nops' = nops + 1

RemoveEdgeAllocFail(from, to, fail) ==
  /\ nops < MaxOps
  /\ LET r == oc_graph_rm_edge_alloc(g, from, to, fail)
     IN /\ g' = r.g
        /\ last' = [op |-> "rm_edge", res |-> IF r.res THEN 1 ELSE 0]
  /\ nops' = nops + 1

InsertVertexAllocFail(fail) ==
  /\ nops < MaxOps
  /\ LET r == oc_graph_insert_vertex_alloc(g, fail)
     IN /\ g' = r.g
        /\ last' = [op |-> "insert_vertex", res |-> r.res]
  /\ nops' = nops + 1

NextAlloc ==
  \/ \E from \in Indices, to \in Indices, weight \in NonZeroWeights :
       InsertEdge(from, to, weight)
  \/ \E from \in Indices, to \in Indices : RemoveEdge(from, to)
  \/ InsertVertex
  \/ \E vertex \in Indices : RemoveVertex(vertex)
  \/ \E from \in Indices, to \in Indices, weight \in NonZeroWeights,
        fail \in 1 .. MaxAllocs :
       InsertEdgeAllocFail(from, to, weight, fail)
  \/ \E from \in Indices, to \in Indices, fail \in 1 .. MaxAllocs :
       RemoveEdgeAllocFail(from, to, fail)
  \/ InsertVertexAllocFail(1)

SpecAlloc == Init /\ [][NextAlloc]_vars

\* ---- long runs on a hybrid graph --------------------------------------------------------------
\* The same calls, made on a graph created in Hybrid mode only, with non-zero
\* weights, in runs of up to MaxOpsHybrid calls.
InitHybrid ==
  /\ \E n \in 1 .. MaxV, directed \in BOOLEAN :
       g = oc_graph_init(n, directed, OC_GRAPH_REPR_HYBRID)
  /\ last = [op |-> "init", res |-> 0]
  /\ nops = 0

HybridInsertEdge(from, to, weight) ==
  /\ nops < MaxOpsHybrid
  /\ LET r == oc_graph_insert_edge(g, from, to, weight)
     IN /\ g' = r.g
        /\ last' = [op |-> "insert_edge", res |-> r.res]
  /\ nops' = nops + 1

HybridRemoveEdge(from, to) ==
  /\ nops < MaxOpsHybrid
  /\ LET r == oc_graph_rm_edge(g, from, to)
     IN /\ g' = r.g
        /\ last' = [op |-> "rm_edge", res |-> IF r.res THEN 1 ELSE 0]
  /\ nops' = nops + 1

HybridInsertVertex ==
  /\ nops < MaxOpsHybrid
  /\ g.num_vertices < MaxV
  /\ LET r == oc_graph_insert_vertex(g)
     IN /\ g' = r.g
        /\ last' = [op |-> "insert_vertex", res |-> r.res]
  /\ nops' = nops + 1

HybridRemoveVertex(vertex) ==
  /\ nops < MaxOpsHybrid
  /\ LET r == oc_graph_rm_vertex(g, vertex)
     IN /\ g' = r.g
        /\ last' = [op |-> "rm_vertex", res |-> IF r.res THEN 1 ELSE 0]
  /\ nops' = nops + 1

NextHybrid ==
  \/ \E from \in Indices, to \in Indices, weight \in NonZeroWeights :
       HybridInsertEdge(from, to, weight)
  \/ \E from \in Indices, to \in Indices : HybridRemoveEdge(from, to)
  \/ HybridInsertVertex
  \/ \E vertex \in Indices : HybridRemoveVertex(vertex)

SpecHybrid == InitHybrid /\ [][NextHybrid]_vars

\* ---- the same calls on a Matrix, a List and a Hybrid graph ------------------------------
\* Here g is a function from the creation mode to the graph created in that
\* mode, and last.res a function from the creation mode to the return value;
\* every call is made on the three graphs with the same arguments.
InitModes ==
  /\ \E n \in 1 .. MaxV, directed \in BOOLEAN :
       g = [mode \in ReprTypes |-> oc_graph_init(n, directed, mode)]
  /\ last = [op |-> "init", res |-> [mode \in ReprTypes |-> 0]]
  /\ nops = 0

ModesInsertEdge(from, to, weight) ==
  /\ nops < MaxOpsModes
  /\ g' = [mode \in ReprTypes |->
             oc_graph_insert_edge(g[mode], from, to, weight).g]
  /\ last' = [op |-> "insert_edge",
              res |-> [mode \in ReprTypes |->
                         oc_graph_insert_edge(g[mode], from, to, weight).res]]
  /\ nops' = nops + 1

ModesRemoveEdge(from, to) ==
  /\ nops < MaxOpsModes
  /\ g' = [mode \in ReprTypes |-> oc_graph_rm_edge(g[mode], from, to).g]
  /\ last' = [op |-> "rm_edge",
              res |-> [mode \in ReprTypes |->
                         IF oc_graph_rm_edge(g[mode], from, to).res
                         THEN 1 ELSE 0]]
  /\ nops' = nops + 1

ModesInsertVertex ==
  /\ nops < MaxOpsModes
  /\ \A mode \in ReprTypes : g[mode].num_vertices < MaxV
  /\ g' = [mode \in ReprTypes |-> oc_graph_insert_vertex(g[mode]).g]
  /\ last' = [op |-> "insert_vertex",
              res |-> [mode \in ReprTypes |->
                         oc_graph_insert_vertex(g[mode]).res]]
  /\ nops' = nops + 1

ModesRemoveVertex(vertex) ==
  /\ nops < MaxOpsModes
  /\ g' = [mode \in ReprTypes |-> oc_graph_rm_vertex(g[mode], vertex).g]
  /\ last' = [op |-> "rm_vertex",
              res |-> [mode \in ReprTypes |->
                         IF oc_graph_rm_vertex(g[mode], vertex).res
                         THEN 1 ELSE 0]]
  /\ nops' = nops + 1

NextModes ==
  \/ \E from \in Indices, to \in Indices, weight \in NonZeroWeights :
       ModesInsertEdge(from, to, weight)
  \/ \E from \in Indices, to \in Indices : ModesRemoveEdge(from, to)
  \/ ModesInsertVertex
  \/ \E vertex \in Indices : ModesRemoveVertex(vertex)

SpecModes == InitModes /\ [][NextModes]_vars

\* ---- calls and traversals ------------------------------------------------------------------
\* The traversals take a const graph: they leave g alone and are not counted
\* among the MaxOps modifying calls; last.res is the sequence of visitor calls.
DepthFirstTraverse(start) ==
  /\ last' = [op |-> "dfs", res |-> oc_graph_dfs(g, start)]
  /\ UNCHANGED << g, nops >>

BreadthFirstTraverse(start) ==
  /\ last' = [op |-> "bfs", res |-> oc_graph_bfs(g, start)]
  /\ UNCHANGED << g, nops >>

NextTraverse ==
  \/ \E from \in Indices, to \in Indices, weight \in Weights :
       InsertEdge(from, to, weight)
  \/ \E from \in Indices, to \in Indices : RemoveEdge(from, to)
  \/ InsertVertex
  \/ \E vertex \in Indices : RemoveVertex(vertex)
  \/ \E start \in Indices : DepthFirstTraverse(start)
  \/ \E start \in Indices : BreadthFirstTraverse(start)

SpecTraverse == Init /\ [][NextTraverse]_vars

\* ---- calls on a dynamic array ------------------------------------------------------------
\* Here g is the user's array pointer, NULL at first, and last.res records the
\* arguments of the call and whether the call moved the block to a larger one.
\* A call whose assert fails ends the program, so the asserted condition is
\* the guard of the action.
DaValues == 1 .. MaxDaVal

InitDa ==
  /\ g = NULL
  /\ last = [op |-> "init", res |-> [index |-> 0, val |-> 0, grew |-> FALSE]]
  /\ nops = 0

DaPush(val) ==
  /\ oc_da_len(g) < MaxDaLen
  /\ g' = oc_da_push(g, val)
  /\ last' = [op |-> "push",
              res |-> [index |-> oc_da_len(g), val |-> val,
                       grew |-> oc_da_cap(oc_da_push(g, val)) # oc_da_cap(g)]]
  /\ UNCHANGED nops

DaPop ==
  /\ oc_da_len(g) > 0
  /\ g' = oc_da_pop(g)
  /\ last' = [op |-> "pop",
              res |-> [index |-> oc_da_len(g) - 1, val |-> 0, grew |-> FALSE]]
  /\ UNCHANGED nops

DaInsert(index, val) ==
  /\ oc_da_len(g) < MaxDaLen
  /\ index <= oc_da_len(g)
  /\ g' = oc_da_insert(g, index, val)
  /\ last' = [op |-> "insert",
              res |-> [index |-> index, val |-> val,
                       grew |-> oc_da_cap(oc_da_insert(g, index, val))
                                  # oc_da_cap(g)]]
  /\ UNCHANGED nops

DaErase(index) ==
  /\ index < oc_da_len(g)
  /\ g' = oc_da_erase(g, index)
  /\ last' = [op |-> "erase",
              res |-> [index |-> index, val |-> 0, grew |-> FALSE]]
  /\ UNCHANGED nops

NextDa ==
  \/ \E val \in DaValues : DaPush(val)
  \/ DaPop
  \/ \E index \in 0 .. MaxDaLen, val \in DaValues : DaInsert(index, val)
  \/ \E index \in 0 .. MaxDaLen : DaErase(index)

SpecDa == InitDa /\ [][NextDa]_vars

\* ---- breadth-first traversals of 4-vertex graphs ----------------------------------------
\* Level order can only be told from other orders when two vertices next to
\* the start and a third vertex behind one of them exist, so these runs are on
\* graphs of MaxVLevels vertices built by MaxOpsLevels edge insertions.
InitLevels ==
  /\ \E directed \in BOOLEAN, repr_type \in ReprTypes :
       g = oc_graph_init(MaxVLevels, directed, repr_type)
  /\ last = [op |-> "init", res |-> 0]
  /\ nops = 0

LevelsInsertEdge(from, to) ==
  /\ nops < MaxOpsLevels
  /\ LET r == oc_graph_insert_edge(g, from, to, 1)
     IN /\ g' = r.g
        /\ last' = [op |-> "insert_edge", res |-> r.res]
  /\ nops' = nops + 1

LevelsBreadthFirstTraverse(start) ==
  /\ last' = [op |-> "bfs", res |-> oc_graph_bfs(g, start)]
  /\ UNCHANGED << g, nops >>

NextLevels ==
  \/ \E from \in 0 .. (MaxVLevels - 1), to \in 0 .. (MaxVLevels - 1) :
       LevelsInsertEdge(from, to)
  \/ \E start \in 0 .. (MaxVLevels - 1) : LevelsBreadthFirstTraverse(start)

SpecLevels == InitLevels /\ [][NextLevels]_vars

\* ---- the queue of a breadth-first traversal, step by step ------------------------------
\* A traversal in progress is held in last: op = "bfs" and res = [start,
\* queue, visited, q_head, order], q_tail being Len(queue).  The traversal
\* runs to its end before the caller makes another call on the graph.
Traversing == last.op = "bfs" /\ last.res.q_head # Len(last.res.queue)

QueueInsertEdge(from, to, weight) == ~Traversing /\ InsertEdge(from, to, weight)

QueueRemoveEdge(from, to) == ~Traversing /\ RemoveEdge(from, to)

QueueInsertVertex == ~Traversing /\ InsertVertex

QueueRemoveVertex(vertex) == ~Traversing /\ RemoveVertex(vertex)

\* visited[start] = true; queue[q_tail++] = start;
BfsStart(start) ==
  /\ ~Traversing
  /\ start < g.num_vertices
  /\ last' = [op |-> "bfs",
              res |-> [start |-> start, queue |-> << start >>,
                       visited |-> {start}, q_head |-> 0, order |-> << >>]]
  /\ UNCHANGED << g, nops >>

\* one turn of the while loop
BfsStep ==
  /\ Traversing
  /\ LET t == last.res
         current == t.queue[t.q_head + 1]
         q == [queue |-> t.queue, visited |-> t.visited]
         q1 == IF g.repr_type = OC_GRAPH_REPR_ADJ_LIST
               THEN BfsScanList(g, current, 1, q)
               ELSE BfsScanMatrix(g, current, 0, q)
     IN last' = [op |-> "bfs",
                 res |-> [start |-> t.start, queue |-> q1.queue,
                          visited |-> q1.visited, q_head |-> t.q_head + 1,
                          order |-> Append(t.order, current)]]
  /\ UNCHANGED << g, nops >>

NextQueue ==
  \/ \E from \in Indices, to \in Indices, weight \in NonZeroWeights :
       QueueInsertEdge(from, to, weight)
  \/ \E from \in Indices, to \in Indices : QueueRemoveEdge(from, to)
  \/ QueueInsertVertex
  \/ \E vertex \in Indices : QueueRemoveVertex(vertex)
  \/ \E start \in Indices : BfsStart(start)
  \/ BfsStep

SpecQueue == Init /\ [][NextQueue]_vars

\* ---- vocabulary of the properties ----------------------------------------------------
\* A property of a call is stated either on the step that makes the call
\* (an action formula over g, g' and last') or in pre/post form on the
\* reachable states: in every reachable state, every call with every
\* argument yields a result and a graph that satisfy the postcondition.
Vertices(G) == 0 .. (G.num_vertices - 1)

\* FindEdge and GetEdgeWeight answer alike on G1 and G2 for every pair below n
SameAnswers(G1, G2, n) ==
  \A u, v \in 0 .. (n - 1) :
    /\ oc_graph_find_edge(G1, u, v) = oc_graph_find_edge(G2, u, v)
    /\ oc_graph_get_edge_weight(G1, u, v) = oc_graph_get_edge_weight(G2, u, v)

\* number of logical edges: ordered pairs when directed, unordered pairs
\* (a self-loop once) when undirected
LogicalEdgeCount(G) ==
  IF G.directed
  THEN Cardinality({p \in Vertices(G) \X Vertices(G) :
                      oc_graph_find_edge(G, p[1], p[2])})
  ELSE Cardinality({p \in Vertices(G) \X Vertices(G) :
                      /\ p[1] <= p[2]
                      /\ \/ oc_graph_find_edge(G, p[1], p[2])
                         \/ oc_graph_find_edge(G, p[2], p[1])})

\* number of logical edges incident to vertex k
IncidentEdgeCount(G, k) ==
  IF G.directed
  THEN Cardinality({p \in Vertices(G) \X Vertices(G) :
                      /\ p[1] = k \/ p[2] = k
                      /\ oc_graph_find_edge(G, p[1], p[2])})
  ELSE Cardinality({p \in Vertices(G) \X Vertices(G) :
                      /\ p[1] <= p[2]
                      /\ p[1] = k \/ p[2] = k
                      /\ \/ oc_graph_find_edge(G, p[1], p[2])
                         \/ oc_graph_find_edge(G, p[2], p[1])})

IsHybrid(G) == G.density_threshold > 0

\* the step is the call oc_graph_insert_edge(g, from, to, weight)
StepInsertEdge(from, to, weight) ==
  /\ last'.op = "insert_edge"
  /\ last'.res = oc_graph_insert_edge(g, from, to, weight).res
  /\ g' = oc_graph_insert_edge(g, from, to, weight).g

\* the step is the call oc_graph_rm_edge(g, from, to)
StepRemoveEdge(from, to) ==
  /\ last'.op = "rm_edge"
  /\ last'.res = (IF oc_graph_rm_edge(g, from, to).res THEN 1 ELSE 0)
  /\ g' = oc_graph_rm_edge(g, from, to).g

\* the step is the call oc_graph_insert_vertex(g)
StepInsertVertex ==
  /\ last'.op = "insert_vertex"
  /\ g' = oc_graph_insert_vertex(g).g

\* the step is the call oc_graph_rm_vertex(g, vertex)
StepRemoveVertex(vertex) ==
  /\ last'.op = "rm_vertex"
  /\ last'.res = (IF oc_graph_rm_vertex(g, vertex).res THEN 1 ELSE 0)
  /\ g' = oc_graph_rm_vertex(g, vertex).g

\* ---- C1 ---------------------------------------------------------------------------------
\* C1: in Hybrid mode, whenever an InsertEdge or RemoveEdge triggers a
\* List->Matrix or Matrix->List conversion, edge_count after the conversion
\* equals edge_count before it, i.e. the count the insert/remove itself produced.
C1_ConversionConservesEdgeCount ==
  [][IsHybrid(g) =>
       \A from \in Vertices(g), to \in Vertices(g) :
         /\ \A weight \in Weights :
              LET mid == InsertEdgeDispatch(g, from, to, weight)
              IN (/\ StepInsertEdge(from, to, weight)
                  /\ mid.res = 0
                  /\ g'.repr_type # mid.g.repr_type)
                   => g'.num_edges = mid.g.num_edges
         /\ LET mid == RmEdgeDispatch(g, from, to)
            IN (/\ StepRemoveEdge(from, to)
                /\ mid.res
                /\ g'.repr_type # mid.g.repr_type)
                 => g'.num_edges = mid.g.num_edges]_vars

\* ---- C2 ---------------------------------------------------------------------------------
\* C2: every conversion is loss-free: FindEdge(u,v) and GetEdgeWeight(u,v)
\* answer the same for all u,v < vertex_count right after the conversion as
\* right before it.
C2_ConversionIsLossFree ==
  [][IsHybrid(g) =>
       \A from \in Vertices(g), to \in Vertices(g) :
         /\ \A weight \in Weights :
              LET mid == InsertEdgeDispatch(g, from, to, weight)
              IN (/\ StepInsertEdge(from, to, weight)
                  /\ mid.res = 0
                  /\ g'.repr_type # mid.g.repr_type)
                   => SameAnswers(mid.g, g', g.num_vertices)
         /\ LET mid == RmEdgeDispatch(g, from, to)
            IN (/\ StepRemoveEdge(from, to)
                /\ mid.res
                /\ g'.repr_type # mid.g.repr_type)
                 => SameAnswers(mid.g, g', g.num_vertices)]_vars

\* ---- C3 ---------------------------------------------------------------------------------
\* C3: after any sequence of calls with non-zero weights, in every mode,
\* edge_count equals the number of logical edges of the graph.
C3_EdgeCountIsLogicalEdgeCount ==
  g.num_edges = LogicalEdgeCount(g)

\* ---- C4 ---------------------------------------------------------------------------------
\* C4: in an undirected graph, in every reachable state, FindEdge(u,v) =
\* FindEdge(v,u) and, when the edge exists, both directions report the same
\* weight.
C4_UndirectedEdgesAreMirrored ==
  ~g.directed =>
    \A u \in Vertices(g), v \in Vertices(g) :
      /\ oc_graph_find_edge(g, u, v) = oc_graph_find_edge(g, v, u)
      /\ oc_graph_find_edge(g, u, v) =>
           oc_graph_get_edge_weight(g, u, v) = oc_graph_get_edge_weight(g, v, u)

\* ---- C5 ---------------------------------------------------------------------------------
\* C5: a successful InsertEdge(from,to,w), w # 0, of an edge that does not yet
\* exist increases edge_count by exactly one, in every mode, a Hybrid insert
\* that triggers a conversion included.
C5_NewEdgeCountsOnce ==
  [][\A from \in Vertices(g), to \in Vertices(g), weight \in NonZeroWeights :
       (/\ ~oc_graph_find_edge(g, from, to)
        /\ StepInsertEdge(from, to, weight)
        /\ last'.res = 0)
         => g'.num_edges = SizeInc(g.num_edges)]_vars

\* ---- C6 ---------------------------------------------------------------------------------
\* number of stored records (list) or non-empty cells (matrix) for (u,v)
StoredRecords(G, u, v) ==
  IF G.repr_type = OC_GRAPH_REPR_ADJ_MATRIX
  THEN (IF G.matrix[u * G.matrix_capacity + v] # 0 THEN 1 ELSE 0)
  ELSE CountTo(G.lists[u], v, 1)

\* C6: inserting an existing edge (u,v) with a different non-zero weight w2
\* leaves edge_count unchanged, adds no stored record for (u,v), and
\* GetEdgeWeight(u,v) then returns w2; for an undirected graph also when the
\* second insert is given as (v,u).
C6_DuplicateInsertUpdatesWeight ==
  [][\A u \in Vertices(g), v \in Vertices(g), w2 \in NonZeroWeights :
       (/\ oc_graph_find_edge(g, u, v)
        /\ oc_graph_get_edge_weight(g, u, v).weight # w2)
         =>
         /\ StepInsertEdge(u, v, w2) =>
              /\ last'.res = 0
              /\ g'.num_edges = g.num_edges
              /\ g'.repr_type = g.repr_type =>
                   StoredRecords(g', u, v) = StoredRecords(g, u, v)
              /\ oc_graph_get_edge_weight(g', u, v) = [found |-> TRUE, weight |-> w2]
         /\ (~g.directed /\ StepInsertEdge(v, u, w2)) =>
              /\ last'.res = 0
              /\ g'.num_edges = g.num_edges
              /\ oc_graph_get_edge_weight(g', u, v) = [found |-> TRUE, weight |-> w2]]_vars

\* ---- C7 ---------------------------------------------------------------------------------
\* C7: RemoveEdge(from,to) with in-range indices returns true exactly when
\* FindEdge(from,to) was true; on true, edge_count decreases by exactly one,
\* FindEdge(from,to) becomes false and, undirected, FindEdge(to,from) too; on
\* false the graph is unchanged.  All other edges and weights are unchanged.
C7_RemoveEdgeRemovesExactlyOne ==
  [][\A from \in Vertices(g), to \in Vertices(g) :
       StepRemoveEdge(from, to) =>
         /\ (last'.res = 1) <=> oc_graph_find_edge(g, from, to)
         /\ oc_graph_find_edge(g, from, to) =>
              /\ g'.num_edges = g.num_edges - 1
              /\ ~oc_graph_find_edge(g', from, to)
              /\ ~g.directed => ~oc_graph_find_edge(g', to, from)
         /\ ~oc_graph_find_edge(g, from, to) => g' = g
         /\ \A u \in Vertices(g), v \in Vertices(g) :
              (/\ << u, v >> # << from, to >>
               /\ g.directed \/ << u, v >> # << to, from >>)
                => /\ oc_graph_find_edge(g', u, v) = oc_graph_find_edge(g, u, v)
                   /\ oc_graph_get_edge_weight(g', u, v)
                        = oc_graph_get_edge_weight(g, u, v)]_vars

\* ---- C8 ---------------------------------------------------------------------------------
\* no stored edge of G refers to a vertex index >= m
NoReferenceFrom(G, m) ==
  /\ \A u \in Indices, v \in Indices :
       (u >= m \/ v >= m) => ~oc_graph_find_edge(G, u, v)
  /\ G.repr_type = OC_GRAPH_REPR_ADJ_LIST =>
       \A i \in DOMAIN G.lists :
         /\ i >= m => G.lists[i] = << >>
         /\ \A k \in 1 .. Len(G.lists[i]) : G.lists[i][k].to < m

\* C8: RemoveVertex(k), k < n, yields an (n-1)-vertex graph whose edges are
\* the old edges not incident to k with the old last vertex n-1 renamed to k:
\* for a,b < n-1, edge (a,b) with weight w exists afterwards iff edge
\* (s(a),s(b)) with weight w existed before, s(k) = n-1, s(x) = x otherwise;
\* no edge references an index >= n-1.  (Pre/post form.)
C8_RemoveVertexRenamesLast ==
  \A k \in Vertices(g) :
    LET n == g.num_vertices
        r == oc_graph_rm_vertex(g, k)
        s(x) == IF x = k THEN n - 1 ELSE x
    IN /\ r.res
       /\ r.g.num_vertices = n - 1
       /\ \A a \in 0 .. (n - 2), b \in 0 .. (n - 2) :
            /\ oc_graph_find_edge(r.g, a, b) = oc_graph_find_edge(g, s(a), s(b))
            /\ oc_graph_get_edge_weight(r.g, a, b)
                 = oc_graph_get_edge_weight(g, s(a), s(b))
       /\ NoReferenceFrom(r.g, n - 1)

\* a 3-vertex graph whose last vertex 2 has a self-loop and an edge to vertex
\* 1, and whose vertex 0 has an edge that the removal drops; RemoveVertex(0)
\* succeeds and vertex 2's edges are found under the index 0
C8_Witness ==
  /\ g.num_vertices = 3
  /\ oc_graph_find_edge(g, 2, 2)
  /\ oc_graph_find_edge(g, 2, 1)
  /\ oc_graph_find_edge(g, 0, 1)
  /\ LET r == oc_graph_rm_vertex(g, 0)
     IN /\ r.res
        /\ r.g.num_vertices = 2
        /\ oc_graph_find_edge(r.g, 0, 0)
        /\ oc_graph_find_edge(r.g, 0, 1)

\* ---- C9 ---------------------------------------------------------------------------------
\* C9: a successful RemoveVertex(k) decreases edge_count by exactly the number
\* of logical edges incident to k before the call.
C9_RemoveVertexCountsIncidentEdges ==
  [][\A k \in Vertices(g) :
       (StepRemoveVertex(k) /\ last'.res = 1)
         => g'.num_edges = g.num_edges - IncidentEdgeCount(g, k)]_vars

\* ---- C10 --------------------------------------------------------------------------------
\* C10: a successful InsertVertex on a graph with n vertices leaves every
\* existing edge and weight and edge_count unchanged, and the new vertex n has
\* no incident edge.
C10_InsertVertexKeepsEdges ==
  [][StepInsertVertex =>
       LET n == g.num_vertices
       IN /\ SameAnswers(g, g', n)
          /\ g'.num_edges = g.num_edges
          /\ \A x \in 0 .. n :
               /\ ~oc_graph_find_edge(g', n, x)
               /\ ~oc_graph_find_edge(g', x, n)]_vars

\* ---- C11 --------------------------------------------------------------------------------
\* indices a caller may pass, one beyond every storage capacity included
AnyIndex == 0 .. MaxV

\* C11: every operation given a vertex index >= vertex_count fails and leaves
\* the graph as it was: InsertEdge returns -1, RemoveEdge and RemoveVertex
\* return false, FindEdge and GetEdgeWeight answer false / not found; also for
\* an index below the storage capacity that a RemoveVertex made invalid.
\* (Pre/post form.)
C11_OutOfRangeFailsWithoutChange ==
  /\ \A from \in AnyIndex, to \in AnyIndex :
       (from >= g.num_vertices \/ to >= g.num_vertices) =>
         /\ \A weight \in Weights :
              /\ oc_graph_insert_edge(g, from, to, weight).res = -1
              /\ oc_graph_insert_edge(g, from, to, weight).g = g
         /\ oc_graph_rm_edge(g, from, to).res = FALSE
         /\ oc_graph_rm_edge(g, from, to).g = g
         /\ ~oc_graph_find_edge(g, from, to)
         /\ ~oc_graph_get_edge_weight(g, from, to).found
  /\ \A vertex \in AnyIndex :
       vertex >= g.num_vertices =>
         /\ oc_graph_rm_vertex(g, vertex).res = FALSE
         /\ oc_graph_rm_vertex(g, vertex).g = g

\* a RemoveVertex has left a non-zero cell in the matrix row of the index it
\* made invalid (below the capacity), and an InsertEdge on that index has
\* just failed
C11_Witness ==
  /\ last.op = "insert_edge"
  /\ last.res = -1
  /\ g.repr_type = OC_GRAPH_REPR_ADJ_MATRIX
  /\ g.num_vertices >= 1
  /\ g.num_vertices < g.matrix_capacity
  /\ g.matrix[g.num_vertices * g.matrix_capacity] # 0
  /\ ~oc_graph_find_edge(g, g.num_vertices, 0)
  /\ oc_graph_rm_edge(g, g.num_vertices, 0).res = FALSE

\* ---- C12 --------------------------------------------------------------------------------
\* C12: in Hybrid mode, after a successful InsertEdge that starts with the List
\* representation active, the active representation is Matrix iff
\* edge_count / vertex_count^2 > 0.25 (edge_count as the insert left it, before
\* any conversion), i.e. iff 4 * edge_count > vertex_count^2; otherwise it
\* stays List.  (Pre/post form.)
C12_InsertConvertsAboveThreshold ==
  (IsHybrid(g) /\ g.repr_type = OC_GRAPH_REPR_ADJ_LIST) =>
    \A from \in Indices, to \in Indices, weight \in Weights :
      LET mid == InsertEdgeDispatch(g, from, to, weight)
          r == oc_graph_insert_edge(g, from, to, weight)
          n == g.num_vertices
      IN r.res = 0 =>
           IF 4 * mid.g.num_edges > n * n
           THEN r.g.repr_type = OC_GRAPH_REPR_ADJ_MATRIX
           ELSE r.g.repr_type = OC_GRAPH_REPR_ADJ_LIST

\* a hybrid graph in the List representation at exactly the threshold density
\* (a successful insert has just left it there, unconverted), where one more
\* new edge converts it to Matrix and a weight update does not
C12_Witness ==
  /\ IsHybrid(g)
  /\ g.repr_type = OC_GRAPH_REPR_ADJ_LIST
  /\ last.op = "insert_edge" /\ last.res = 0
  /\ 4 * g.num_edges = g.num_vertices * g.num_vertices
  /\ \E from \in Vertices(g), to \in Vertices(g) :
       /\ ~oc_graph_find_edge(g, from, to)
       /\ oc_graph_insert_edge(g, from, to, 1).g.repr_type = OC_GRAPH_REPR_ADJ_MATRIX
  /\ \E from \in Vertices(g), to \in Vertices(g) :
       /\ oc_graph_find_edge(g, from, to)
       /\ oc_graph_insert_edge(g, from, to, 1).res = 0
       /\ oc_graph_insert_edge(g, from, to, 1).g.repr_type = OC_GRAPH_REPR_ADJ_LIST

\* ---- C13 --------------------------------------------------------------------------------
\* C13: in Hybrid mode, after a successful RemoveEdge that starts with the
\* Matrix representation active, the active representation is List iff
\* edge_count / vertex_count^2 after the removal is below 0.75 * 0.25 = 3/16;
\* a density in [3/16, 1/4] never converts Matrix->List.  (Pre/post form.)
C13_RemoveConvertsBelowHysteresis ==
  (IsHybrid(g) /\ g.repr_type = OC_GRAPH_REPR_ADJ_MATRIX) =>
    \A from \in Indices, to \in Indices :
      LET mid == RmEdgeDispatch(g, from, to)
          r == oc_graph_rm_edge(g, from, to)
          n == g.num_vertices
      IN r.res =>
           IF 16 * mid.g.num_edges < 3 * n * n
           THEN r.g.repr_type = OC_GRAPH_REPR_ADJ_LIST
           ELSE r.g.repr_type = OC_GRAPH_REPR_ADJ_MATRIX

\* a hybrid graph in the Matrix representation from which one removal lands
\* in the band [3/16, 1/4] and keeps the matrix
C13_Witness ==
  /\ IsHybrid(g)
  /\ g.repr_type = OC_GRAPH_REPR_ADJ_MATRIX
  /\ \E from \in Vertices(g), to \in Vertices(g) :
       LET r == oc_graph_rm_edge(g, from, to)
           n == g.num_vertices
       IN /\ r.res
          /\ 16 * r.g.num_edges >= 3 * n * n
          /\ 4 * r.g.num_edges <= n * n
          /\ r.g.repr_type = OC_GRAPH_REPR_ADJ_MATRIX

\* ---- C14 --------------------------------------------------------------------------------
\* C14: hysteresis prevents oscillation.  In Hybrid mode, when a successful
\* InsertEdge converts List->Matrix, a single RemoveEdge issued right after it
\* does not convert back to List; and when a RemoveEdge converts Matrix->List,
\* a single InsertEdge issued right after it does not convert back to Matrix.
\* (Pre/post form over two consecutive calls.)
C14_HysteresisPreventsOscillation ==
  IsHybrid(g) =>
    /\ g.repr_type = OC_GRAPH_REPR_ADJ_LIST =>
         \A from \in Vertices(g), to \in Vertices(g), weight \in NonZeroWeights :
           LET r1 == oc_graph_insert_edge(g, from, to, weight)
           IN (r1.res = 0 /\ r1.g.repr_type = OC_GRAPH_REPR_ADJ_MATRIX) =>
                \A f2 \in Vertices(g), t2 \in Vertices(g) :
                  oc_graph_rm_edge(r1.g, f2, t2).g.repr_type
                    = OC_GRAPH_REPR_ADJ_MATRIX
    /\ g.repr_type = OC_GRAPH_REPR_ADJ_MATRIX =>
         \A from \in Vertices(g), to \in Vertices(g) :
           LET r1 == oc_graph_rm_edge(g, from, to)
           IN (r1.res /\ r1.g.repr_type = OC_GRAPH_REPR_ADJ_LIST) =>
                \A f2 \in Vertices(g), t2 \in Vertices(g),
                   weight \in NonZeroWeights :
                  oc_graph_insert_edge(r1.g, f2, t2, weight).g.repr_type
                    = OC_GRAPH_REPR_ADJ_LIST

\* ---- C15 --------------------------------------------------------------------------------
\* G2 is G1 unconverted: same active representation, vertex_count, edge_count,
\* edges and weights
Unconverted(G1, G2) ==
  /\ G2.repr_type = G1.repr_type
  /\ G2.num_vertices = G1.num_vertices
  /\ G2.num_edges = G1.num_edges
  /\ SameAnswers(G1, G2, G1.num_vertices)

\* C15: if an allocation made during a representation conversion fails (the
\* new matrix, the new slot array, or an edge record allocated while the edges
\* are replayed into the new list), the graph is left as it was before the
\* conversion: same active representation, same edges and weights, same
\* edge_count.  (Pre/post form; the conversion is the one run by the density
\* check of InsertEdge or RemoveEdge.)
C15_FailedConversionKeepsGraph ==
  IsHybrid(g) =>
    /\ \A from \in Vertices(g), to \in Vertices(g), weight \in NonZeroWeights,
          fail \in 1 .. MaxAllocs :
         LET mid == InsertEdgeDispatch_alloc(g, from, to, weight, fail)
             c == _oc_graph_check_hybrid_conversion_alloc(mid.g, mid.fail)
         IN (mid.res = 0 /\ mid.fail >= 1 /\ c.fail = 0) => Unconverted(mid.g, c.g)
    /\ \A from \in Vertices(g), to \in Vertices(g), fail \in 1 .. MaxAllocs :
         LET mid == RmEdgeDispatch(g, from, to)
             c == _oc_graph_check_hybrid_conversion_alloc(mid.g, fail)
         IN (mid.res /\ c.fail = 0) => Unconverted(mid.g, c.g)

\* ---- C16 --------------------------------------------------------------------------------
\* C16: if an allocation fails inside InsertEdge (the forward or, undirected,
\* the mirrored record of the List representation) or inside InsertVertex (the
\* new matrix or the enlarged slot array), the call returns -1 / (size_t)-1
\* and the graph is unchanged; no half of an undirected edge remains.
\* (Pre/post form.)
C16_FailedInsertLeavesGraph ==
  /\ \A from \in Indices, to \in Indices, weight \in Weights,
        fail \in 1 .. MaxAllocs :
       LET mid == InsertEdgeDispatch_alloc(g, from, to, weight, fail)
           r == oc_graph_insert_edge_alloc(g, from, to, weight, fail)
       IN mid.fail = 0 =>
            /\ r.res = -1
            /\ r.g = g
            /\ SameAnswers(g, r.g, g.num_vertices)
  /\ oc_graph_insert_vertex_alloc(g, 1).res = -1
  /\ oc_graph_insert_vertex_alloc(g, 1).g = g

\* an undirected graph in the List representation with all MaxV vertices (so
\* that no index is out of range) on which an InsertEdge has just failed, and
\* on which the insert of a new edge fails again when the allocation of the
\* mirrored record returns NULL
C16_Witness ==
  /\ last.op = "insert_edge" /\ last.res = -1
  /\ g.num_vertices = MaxV
  /\ ~g.directed
  /\ g.repr_type = OC_GRAPH_REPR_ADJ_LIST
  /\ g.num_edges >= 1
  /\ \E from \in Vertices(g), to \in Vertices(g) :
       /\ ~oc_graph_find_edge(g, from, to)
       /\ _oc_graph_insert_edge_list_alloc(g, from, to, 1, 1).fail = 0
       /\ _oc_graph_insert_edge_list_alloc(g, from, to, 1, 2).fail = 0
       /\ oc_graph_insert_edge_alloc(g, from, to, 1, 2).res = -1

\* ---- C17 --------------------------------------------------------------------------------
\* C17: a graph created in Matrix mode has the Matrix representation active in
\* every state it reaches, and a graph created in List mode has the List
\* representation active in every state it reaches, whatever calls are made
\* and whatever the density becomes; only a graph created in Hybrid mode
\* converts.
C17_FixedModeNeverConverts ==
  \A n \in 1 .. MaxV, directed \in BOOLEAN,
     mode \in {OC_GRAPH_REPR_ADJ_MATRIX, OC_GRAPH_REPR_ADJ_LIST} :
    (g = oc_graph_init(n, directed, mode)) => [](g.repr_type = mode)

\* a graph created in List mode whose density is above the default threshold
\* after a successful InsertEdge, or one created in Matrix mode whose density
\* is below the hysteresis bound after a successful RemoveEdge: a Hybrid graph
\* would have converted here
C17_Witness ==
  /\ ~IsHybrid(g)
  /\ LET max_edges == g.num_vertices * g.num_vertices
     IN \/ /\ last.op = "insert_edge" /\ last.res = 0
           /\ g.repr_type = OC_GRAPH_REPR_ADJ_LIST
           /\ g.num_edges * 100 > DefaultDensityThreshold * max_edges
        \/ /\ last.op = "rm_edge" /\ last.res = 1
           /\ g.repr_type = OC_GRAPH_REPR_ADJ_MATRIX
           /\ g.num_edges * 100 * 100
                < DefaultDensityThreshold * HysteresisPercent * max_edges

\* ---- C18 --------------------------------------------------------------------------------
\* C18: the same sequence of InsertEdge, RemoveEdge, InsertVertex and
\* RemoveVertex calls on three graphs created with the same vertex count and
\* directedness in Matrix, List and Hybrid mode gives the same return value
\* for every call and, after every call, the same vertex_count, the same
\* edge_count and the same FindEdge / GetEdgeWeight answers for every pair.
C18_ModesAgree ==
  \A m1 \in ReprTypes, m2 \in ReprTypes :
    /\ last.res[m1] = last.res[m2]
    /\ g[m1].num_vertices = g[m2].num_vertices
    /\ g[m1].num_edges = g[m2].num_edges
    /\ SameAnswers(g[m1], g[m2], g[m1].num_vertices)

\* ---- C19 --------------------------------------------------------------------------------
\* the vertices reachable from start along existing edges (FindEdge), start
\* included: the least set closed under the edges, computed by iteration
RECURSIVE ReachableFrom(_, _)
ReachableFrom(G, S) ==
  LET T == S \cup {v \in Vertices(G) :
                     \E u \in S : oc_graph_find_edge(G, u, v)}
  IN IF T = S THEN S ELSE ReachableFrom(G, T)

\* the set of the elements of a sequence
Range(seq) == {seq[k] : k \in 1 .. Len(seq)}

\* every call of the visitor is for a reachable vertex, every reachable vertex
\* gets one, and no vertex gets two
VisitsExactly(order, S) ==
  /\ Range(order) = S
  /\ Len(order) = Cardinality(S)

\* every edge record of the active List representation names a vertex of G
ListTargetsInRange(G) ==
  G.repr_type = OC_GRAPH_REPR_ADJ_LIST =>
    \A u \in Vertices(G) :
      \A k \in 1 .. Len(G.lists[u]) : G.lists[u][k].to < G.num_vertices

\* C19: DepthFirstTraverse and BreadthFirstTraverse from an in-range start
\* call the visitor exactly once for every vertex reachable from start along
\* existing edges and never for another vertex, and terminate; this holds in
\* every reachable state, whether the Matrix or the List representation is
\* active, so the set of visited vertices is the reachable set in both.
\* (Pre/post form.)
C19_TraversalsVisitReachableOnce ==
  /\ ListTargetsInRange(g)
  /\ \A start \in Vertices(g) :
       /\ VisitsExactly(oc_graph_dfs(g, start), ReachableFrom(g, {start}))
       /\ VisitsExactly(oc_graph_bfs(g, start), ReachableFrom(g, {start}))

\* a breadth-first traversal has just visited two of the vertices and left
\* out another, on a matrix that has more capacity than vertices (a vertex
\* was removed) or on a hybrid graph that has converted to the Matrix
\* representation
C19_Witness ==
  /\ last.op = "bfs"
  /\ Len(last.res) = 2
  /\ \E v \in Vertices(g) : v \notin Range(last.res)
  /\ g.repr_type = OC_GRAPH_REPR_ADJ_MATRIX
  /\ g.matrix_capacity > g.num_vertices \/ IsHybrid(g)

\* ---- C20 --------------------------------------------------------------------------------
\* C20: zero is the reserved "no edge" value in both representations: a call
\* InsertEdge(u,v,0) on in-range u, v succeeds, but afterwards FindEdge(u,v)
\* is false and GetEdgeWeight(u,v) is not found, whether the Matrix or the
\* List representation is active, and no pair is reported present with a
\* stored weight of exactly zero.
C20_ZeroWeightIsNoEdge ==
  [][\A u \in Vertices(g), v \in Vertices(g) :
       StepInsertEdge(u, v, 0) =>
         /\ last'.res = 0
         /\ ~oc_graph_find_edge(g', u, v)
         /\ ~oc_graph_get_edge_weight(g', u, v).found
         /\ \A a \in Vertices(g'), b \in Vertices(g') :
              oc_graph_find_edge(g', a, b) =>
                oc_graph_get_edge_weight(g', a, b).weight # 0]_vars

\* ---- C21 --------------------------------------------------------------------------------
\* C21: in a directed graph InsertEdge(u,v,w) and RemoveEdge(u,v) with u # v
\* never change the reverse edge: FindEdge(v,u) and GetEdgeWeight(v,u) answer
\* after the call as before it, in both representations; and no call changes
\* the directedness flag.  (Pre/post form.)
C21_ReverseEdgeUntouched ==
  /\ g.directed =>
       \A u \in Vertices(g), v \in Vertices(g) :
         u # v =>
           /\ \A w \in Weights :
                LET r == oc_graph_insert_edge(g, u, v, w)
                IN /\ oc_graph_find_edge(r.g, v, u) = oc_graph_find_edge(g, v, u)
                   /\ oc_graph_get_edge_weight(r.g, v, u)
                        = oc_graph_get_edge_weight(g, v, u)
           /\ LET r == oc_graph_rm_edge(g, u, v)
              IN /\ oc_graph_find_edge(r.g, v, u) = oc_graph_find_edge(g, v, u)
                 /\ oc_graph_get_edge_weight(r.g, v, u)
                      = oc_graph_get_edge_weight(g, v, u)
  /\ \A u \in Indices, v \in Indices, w \in Weights :
       /\ oc_graph_insert_edge(g, u, v, w).g.directed = g.directed
       /\ oc_graph_rm_edge(g, u, v).g.directed = g.directed
       /\ oc_graph_rm_vertex(g, u).g.directed = g.directed
  /\ oc_graph_insert_vertex(g).g.directed = g.directed

\* ---- C22 --------------------------------------------------------------------------------
\* C22: Create(0, directed, mode) fails and produces no graph; Create(n,
\* directed, mode) with n >= 1 produces a graph with vertex_count n,
\* edge_count 0 and FindEdge false for every pair, whose active representation
\* is Matrix for Matrix mode and List for List mode and for Hybrid mode, and
\* whose density threshold is 0.25 in Hybrid mode and not positive otherwise.
\* (Stated on the state right after creation.)
C22_CreateResult ==
  \A directed \in BOOLEAN, mode \in ReprTypes :
    /\ oc_graph_init(0, directed, mode) = NULL
    /\ \A n \in 1 .. MaxV :
         (nops = 0 /\ g = oc_graph_init(n, directed, mode)) =>
           /\ g # NULL
           /\ g.num_vertices = n
           /\ g.num_edges = 0
           /\ g.directed = directed
           /\ \A u \in Indices, v \in Indices :
                /\ ~oc_graph_find_edge(g, u, v)
                /\ ~oc_graph_get_edge_weight(g, u, v).found
           /\ g.repr_type = (IF mode = OC_GRAPH_REPR_ADJ_MATRIX
                             THEN OC_GRAPH_REPR_ADJ_MATRIX
                             ELSE OC_GRAPH_REPR_ADJ_LIST)
           /\ IF mode = OC_GRAPH_REPR_HYBRID
              THEN g.density_threshold = DefaultDensityThreshold
              ELSE g.density_threshold <= 0

\* the graph just created in Hybrid mode with MaxV vertices: the List
\* representation is active and the threshold is set
C22_Witness ==
  /\ last.op = "init" /\ nops = 0
  /\ g = oc_graph_init(MaxV, TRUE, OC_GRAPH_REPR_HYBRID)
  /\ g.repr_type = OC_GRAPH_REPR_ADJ_LIST
  /\ g.density_threshold = DefaultDensityThreshold

\* ---- C23 --------------------------------------------------------------------------------
\* C23: after any sequence of push, pop, insert and erase on an array that
\* starts as NULL, length <= capacity; the capacity is 0 before the first
\* push and OC_DYNARRAY_INITIAL_CAPACITY after it, doubles exactly when a
\* push finds length = capacity, and is not changed by pop or erase; push
\* increases the length by one and stores the value at the old length, pop
\* decreases the length by one.  (Pre/post form.)
C23_LengthAndCapacity ==
  LET len == oc_da_len(g)
      cap == oc_da_cap(g)
  IN /\ len <= cap
     /\ g = NULL => cap = 0
     /\ \A val \in DaValues :
          LET r == oc_da_push(g, val)
          IN /\ oc_da_len(r) = len + 1
             /\ r.data[len] = val
             /\ oc_da_cap(r) = (IF len # cap THEN cap
                                ELSE IF g = NULL
                                     THEN OC_DYNARRAY_INITIAL_CAPACITY
                                     ELSE 2 * cap)
     /\ len > 0 =>
          /\ oc_da_len(oc_da_pop(g)) = len - 1
          /\ oc_da_cap(oc_da_pop(g)) = cap
          /\ \A index \in 0 .. (len - 1) :
               oc_da_cap(oc_da_erase(g, index)) = cap

\* a push has just found the array full at the initial capacity and doubled
\* it
C23_Witness ==
  /\ last.op = "push" /\ last.res.grew
  /\ oc_da_len(g) = OC_DYNARRAY_INITIAL_CAPACITY + 1
  /\ oc_da_cap(g) = 2 * OC_DYNARRAY_INITIAL_CAPACITY
  /\ g.data[OC_DYNARRAY_INITIAL_CAPACITY] = last.res.val

\* ---- C24 --------------------------------------------------------------------------------
\* the elements of the array, in order
Elements(da) == [k \in 1 .. oc_da_len(da) |-> da.data[k - 1]]

\* C24: insert(da, i, v) with i <= length yields old[0..i-1], v,
\* old[i..length-1] (also when the insert forces a capacity growth), and
\* erase(da, i) with i < length yields old[0..i-1], old[i+1..length-1];
\* so erase(i) right after insert(i, v) restores the sequence.
\* (Pre/post form.)
C24_InsertEraseSequences ==
  LET len == oc_da_len(g)
      old == Elements(g)
  IN /\ \A index \in 0 .. len, val \in DaValues :
          LET r == oc_da_insert(g, index, val)
          IN /\ Elements(r) = SubSeq(old, 1, index) \o << val >>
                                 \o SubSeq(old, index + 1, len)
             /\ Elements(oc_da_erase(r, index)) = old
     /\ \A index \in 0 .. (len - 1) :
          Elements(oc_da_erase(g, index))
            = SubSeq(old, 1, index) \o SubSeq(old, index + 2, len)

\* an insert before the last element has just found the array full at the
\* initial capacity and moved it to a block twice as large
C24_Witness ==
  /\ last.op = "insert" /\ last.res.grew
  /\ last.res.index < OC_DYNARRAY_INITIAL_CAPACITY - 1
  /\ oc_da_len(g) = OC_DYNARRAY_INITIAL_CAPACITY + 1
  /\ g.data[last.res.index] = last.res.val
  /\ g.data[last.res.index + 1] # last.res.val

\* ---- C25 --------------------------------------------------------------------------------
\* the neighbours of v in the order the active representation offers them:
\* ascending index for the Matrix, head of the per-vertex list first for the
\* List
NeighbourOrder(G, v) ==
  IF G.repr_type = OC_GRAPH_REPR_ADJ_LIST
  THEN [k \in 1 .. Len(G.lists[v]) |-> G.lists[v][k].to]
  ELSE LET Present(i) == oc_graph_find_edge(G, v, i)
       IN SelectSeq([k \in 1 .. G.num_vertices |-> k - 1], Present)

\* pre-order walk: pending holds the vertices still to be looked at, nearest
\* first; a vertex not reported yet is reported and its neighbours are put in
\* front of the rest
RECURSIVE PreOrderWalk(_, _, _)
PreOrderWalk(G, pending, order) ==
  IF pending = << >> THEN order
  ELSE LET v == Head(pending)
       IN IF v \in Range(order)
          THEN PreOrderWalk(G, Tail(pending), order)
          ELSE PreOrderWalk(G, NeighbourOrder(G, v) \o Tail(pending),
                            Append(order, v))

\* C25: DepthFirstTraverse is a recursive pre-order walk: a vertex is reported
\* before any vertex discovered through it, and the unvisited neighbours of a
\* vertex are explored in ascending index order when the Matrix
\* representation is active and head-of-list first when the List
\* representation is active, the head being the most recently inserted
\* record: right after InsertEdge(u,v,w) has added a new edge to a List, the
\* walk from u goes to v first.  (Pre/post form.)
C25_DfsIsPreOrder ==
  /\ \A start \in Vertices(g) :
       oc_graph_dfs(g, start) = PreOrderWalk(g, << start >>, << >>)
  /\ g.repr_type = OC_GRAPH_REPR_ADJ_LIST =>
       \A u \in Vertices(g), v \in Vertices(g) :
         LET r == oc_graph_insert_edge(g, u, v, 1)
         IN (/\ u # v
             /\ ~oc_graph_find_edge(g, u, v)
             /\ r.res = 0
             /\ r.g.repr_type = OC_GRAPH_REPR_ADJ_LIST) =>
              /\ oc_graph_dfs(r.g, u)[2] = v
              /\ ~g.directed => oc_graph_dfs(r.g, v)[2] = u

\* a depth-first traversal of a 3-vertex List graph from vertex 0, which has
\* edges to 1 and to 2, has just reported 2 before 1: the edge to 2 was
\* inserted last; in ascending order 1 would come first
C25_Witness ==
  /\ last.op = "dfs"
  /\ last.res = << 0, 2, 1 >>
  /\ g.repr_type = OC_GRAPH_REPR_ADJ_LIST
  /\ oc_graph_find_edge(g, 0, 1)
  /\ oc_graph_find_edge(g, 0, 2)
  /\ ~oc_graph_find_edge(g, 2, 1)

\* ---- C26 --------------------------------------------------------------------------------
\* the number of edges on a shortest path from the vertices of S to v, when S
\* is the set of vertices at most d edges from the start; v must be reachable
RECURSIVE DistanceWalk(_, _, _, _)
DistanceWalk(G, S, v, d) ==
  IF v \in S THEN d
  ELSE DistanceWalk(G, S \cup {b \in Vertices(G) :
                                 \E a \in S : oc_graph_find_edge(G, a, b)},
                    v, d + 1)

Distance(G, start, v) == DistanceWalk(G, {start}, v, 0)

\* C26: BreadthFirstTraverse reports vertices in level order: the start
\* vertex first and, for any two visited vertices a and b, if the shortest
\* path from start to a has fewer edges than that to b, a is reported before
\* b; in both representations.  (Pre/post form.)
C26_BfsLevelOrder ==
  \A start \in Vertices(g) :
    LET order == oc_graph_bfs(g, start)
    IN /\ order[1] = start
       /\ \A i \in 1 .. Len(order), j \in 1 .. Len(order) :
            Distance(g, start, order[i]) < Distance(g, start, order[j])
              => i < j

\* a breadth-first traversal has just reported four vertices: two next to
\* the start, then one two edges away that lies behind the first of them, so
\* a depth-first walk would have reported it before the second
C26_Witness ==
  /\ last.op = "bfs"
  /\ Len(last.res) = MaxVLevels
  /\ Distance(g, last.res[1], last.res[2]) = 1
  /\ Distance(g, last.res[1], last.res[3]) = 1
  /\ Distance(g, last.res[1], last.res[4]) = 2
  /\ oc_graph_find_edge(g, last.res[2], last.res[4])

\* ---- C27 --------------------------------------------------------------------------------
\* C27: edge_count never wraps around: no operation decrements it when it is
\* 0, so in every reachable state edge_count <= vertex_count * vertex_count,
\* for every graph, directed or undirected, with or without self-loops.
C27_EdgeCountNeverWraps ==
  g.num_edges <= g.num_vertices * g.num_vertices

\* ---- C28 --------------------------------------------------------------------------------
\* C28: in Hybrid mode a conversion only happens in the direction the
\* triggering call implies: a successful InsertEdge never changes the active
\* representation from Matrix to List, a successful RemoveEdge never changes
\* it from List to Matrix, and InsertVertex, RemoveVertex and failed calls
\* never change the active representation, whatever vertex insertions and
\* removals have done to the density.
C28_ConversionFollowsTheCall ==
  [][IsHybrid(g) =>
       /\ (last'.op = "insert_edge" /\ last'.res = 0) =>
            ~(/\ g.repr_type = OC_GRAPH_REPR_ADJ_MATRIX
              /\ g'.repr_type = OC_GRAPH_REPR_ADJ_LIST)
       /\ (last'.op = "rm_edge" /\ last'.res = 1) =>
            ~(/\ g.repr_type = OC_GRAPH_REPR_ADJ_LIST
              /\ g'.repr_type = OC_GRAPH_REPR_ADJ_MATRIX)
       /\ (\/ last'.op \in {"insert_vertex", "rm_vertex"}
           \/ last'.op = "insert_edge" /\ last'.res = -1
           \/ last'.op = "rm_edge" /\ last'.res = 0) =>
            g'.repr_type = g.repr_type]_vars

\* ---- C29 --------------------------------------------------------------------------------
\* C29: storage stays within the vertex range: in every reachable state with
\* the List representation active, every record in a slot below vertex_count
\* has a destination < vertex_count and every slot from vertex_count up to
\* the slot capacity is empty; with the Matrix representation active, the
\* matrix capacity is >= vertex_count.  So the traversals never index their
\* visited array out of bounds.
C29_StorageWithinVertexRange ==
  /\ g.repr_type = OC_GRAPH_REPR_ADJ_LIST =>
       /\ g.list_capacity >= g.num_vertices
       /\ DOMAIN g.lists = 0 .. (g.list_capacity - 1)
       /\ \A i \in DOMAIN g.lists :
            IF i < g.num_vertices
            THEN \A k \in 1 .. Len(g.lists[i]) :
                   g.lists[i][k].to < g.num_vertices
            ELSE g.lists[i] = << >>
  /\ g.repr_type = OC_GRAPH_REPR_ADJ_MATRIX =>
       /\ g.matrix_capacity >= g.num_vertices
       /\ DOMAIN g.matrix
            = 0 .. (g.matrix_capacity * g.matrix_capacity - 1)

\* RemoveVertex has just succeeded on a List graph: a slot beyond vertex_count
\* exists and a record is still stored below it
C29_Witness ==
  /\ last.op = "rm_vertex" /\ last.res = 1
  /\ g.repr_type = OC_GRAPH_REPR_ADJ_LIST
  /\ g.list_capacity > g.num_vertices
  /\ g.num_vertices = MaxV - 1
  /\ \E i \in Vertices(g) : g.lists[i] # << >>

\* ---- C30 --------------------------------------------------------------------------------
\* C30: during BreadthFirstTraverse each vertex is enqueued at most once (it
\* is marked visited when enqueued), so the queue tail index never exceeds
\* vertex_count, the queue head never passes the tail, and the queue of
\* vertex_count entries never overflows, for every graph including ones with
\* self-loops and the duplicated records of undirected self-loops.  A
\* traversal that has run to its end has reported what oc_graph_bfs reports.
C30_QueueNeverOverflows ==
  last.op = "bfs" =>
    LET t == last.res
        q_tail == Len(t.queue)
    IN /\ q_tail <= g.num_vertices
       /\ t.q_head <= q_tail
       /\ \A i \in 1 .. q_tail, j \in 1 .. q_tail :
            t.queue[i] = t.queue[j] => i = j
       /\ t.visited = Range(t.queue)
       /\ t.order = SubSeq(t.queue, 1, t.q_head)
       /\ t.q_head = q_tail => t.order = oc_graph_bfs(g, t.start)

\* a traversal of an undirected List graph has run to its end with the queue
\* full (every vertex enqueued), having started at a vertex whose self-loop
\* is stored as two records
C30_Witness ==
  /\ last.op = "bfs"
  /\ last.res.q_head = Len(last.res.queue)
  /\ Len(last.res.queue) = g.num_vertices
  /\ g.num_vertices = MaxV
  /\ ~g.directed
  /\ g.repr_type = OC_GRAPH_REPR_ADJ_LIST
  /\ CountTo(g.lists[last.res.start], last.res.start, 1) = 2

=============================================================================
